---- MODULE Spec2Model ----
(***************************************************************************)
(* A model of the ray tracer: vector arithmetic, ray/primitive             *)
(* intersection, the scene query, the directional light, the materials,    *)
(* the per-pixel sampler and the frame renderer draw().                    *)
(*                                                                         *)
(* Numbers.  JavaScript numbers are modelled as decimal fixed-point        *)
(* values: the integer n stands for the number n / Scale.  Every           *)
(* arithmetic result is rounded to that grid (half away from zero), as a   *)
(* double rounds to its own grid.  Infinity, -Infinity and NaN are kept    *)
(* as three reserved values, because division by a zero direction          *)
(* component produces them in Box.intersect and the scene query starts     *)
(* from Infinity.  All zeros are +0.                                       *)
(***************************************************************************)
EXTENDS Integers, Sequences, FiniteSets, TLC

VARIABLES
    host,           \* which front end runs draw(): "canvas" or "processing"
    pc,             \* position of draw() in its loops
    g_frameCount,   \* frames drawn so far
    g_objects,      \* the scene: a sequence of primitives
    g_lights,       \* the lights: a sequence of DirectionalLight
    g_sampler,      \* the Sampler instance
    i,              \* current row of draw()
    j,              \* current column of draw()
    background,     \* what the frame was cleared to (an emitted colour)
    emitted,        \* the pixels written during the current frame, in order
    pixelHit,       \* did any sample of the current pixel intersect the scene
    query,          \* the last call made through an interface, with its result
    calls           \* what was called on the Sampler since the last reset()

vars == <<host, pc, g_frameCount, g_objects, g_lights, g_sampler, i, j,
          background, emitted, pixelHit, query, calls>>

-----------------------------------------------------------------------------
(* Numbers *)

Scale == 10 * 10

Infinity == 2 ^ 30

NaN == Infinity + 1

IsNumber(x) == x # NaN

IsFinite(x) == x > -Infinity /\ x < Infinity

\* The number n (an integer literal of the source) on the grid.
Num(n) == n * Scale

\* JavaScript's a < b, a <= b, a > b, a >= b: false when either side is NaN.
Lt(a, b) == a # NaN /\ b # NaN /\ a < b

Le(a, b) == a # NaN /\ b # NaN /\ a <= b

Gt(a, b) == Lt(b, a)

Ge(a, b) == Le(b, a)

Abs(x) == IF x < 0 THEN -x ELSE x

\* n / d rounded to the nearest integer, halves away from zero (d # 0).
RDiv(n, d) ==
    LET q == (2 * Abs(n) + Abs(d)) \div (2 * Abs(d))
    IN  IF (n < 0) # (d < 0) THEN -q ELSE q

\* x + y and x - y: NaN when either side is NaN.
Add(x, y) == IF x = NaN \/ y = NaN THEN NaN ELSE x + y

Sub(x, y) == IF x = NaN \/ y = NaN THEN NaN ELSE x - y

\* The product x * y: NaN when either side is NaN, else rounded to the grid.
Mul(x, y) == IF x = NaN \/ y = NaN THEN NaN ELSE RDiv(x * y, Scale)

\* JavaScript's x / y for finite x, y: y = 0 gives NaN or an infinity.
Div(x, y) ==
    IF x = NaN \/ y = NaN THEN NaN
    ELSE IF y = 0
    THEN IF x = 0 THEN NaN ELSE IF x > 0 THEN Infinity ELSE -Infinity
    ELSE RDiv(x * Scale, y)

Math_abs(x) == IF x = NaN THEN NaN ELSE Abs(x)

Math_max(a, b) == IF a = NaN \/ b = NaN THEN NaN ELSE IF a > b THEN a ELSE b

Math_min(a, b) == IF a = NaN \/ b = NaN THEN NaN ELSE IF a < b THEN a ELSE b

\* floor(x) for a finite x, again on the grid.
Math_floor(x) == (x \div Scale) * Scale

\* The largest r with r * r <= n, for 0 <= n < 2^31, by bisection.
RECURSIVE ISqrtRec(_, _, _)
ISqrtRec(n, lo, hi) ==
    IF hi - lo <= 1 THEN lo
    ELSE LET mid == (lo + hi) \div 2
         IN  IF mid * mid <= n THEN ISqrtRec(n, mid, hi)
                               ELSE ISqrtRec(n, lo, mid)

ISqrt(n) == ISqrtRec(n, 0, 46341)

\* Math.sqrt(x): NaN for a negative x, else the root rounded to the grid.
Math_sqrt(x) ==
    IF x = NaN \/ x < 0 THEN NaN
    ELSE IF x = Infinity THEN Infinity
    ELSE LET n == x * Scale
             r == ISqrt(n)
         IN  IF n - r * r > r THEN r + 1 ELSE r

\* Math.pow(x, n) for a natural exponent n, by repeated multiplication.
RECURSIVE Math_pow(_, _)
Math_pow(x, n) == IF n = 0 THEN Num(1) ELSE Mul(x, Math_pow(x, n - 1))

\* The thresholds of the source on the grid.  1e-2 is one grid step; a grid
\* value exceeds 1e-4 exactly when it is positive, and has magnitude below
\* 1e-5 exactly when it is zero.
Eps1em2 == Scale \div 100

GtEps1em4(x) == Gt(x, 0)

LtEps1em5(x) == x = 0

-----------------------------------------------------------------------------
(* Wide integers, for the products of Sphere.intersect, which exceed 2^31  *)
(* on the grid when the ray starts LIGHT_STEP_SIZE_ away.  <<hi, lo>>       *)
(* stands for hi * WBase + lo with 0 <= lo < WBase.                         *)

WBase == 10 ^ 6

WHalf == 10 ^ 3

WNorm(h, l) == <<h + (l \div WBase), l % WBase>>

WOf(x) == WNorm(0, x)

WAdd(u, v) == WNorm(u[1] + v[1], u[2] + v[2])

WNeg(u) == WNorm(-u[1], -u[2])

WSub(u, v) == WAdd(u, WNeg(v))

WIsNeg(u) == u[1] < 0

WIsZero(u) == u[1] = 0 /\ u[2] = 0

\* u < v
WLess(u, v) == u[1] < v[1] \/ (u[1] = v[1] /\ u[2] < v[2])

WAbs(u) == IF WIsNeg(u) THEN WNeg(u) ELSE u

\* The exact product of two integers of magnitude below 4 * 10^7.
WProd(x, y) ==
    LET x1 == x \div WHalf
        x0 == x % WHalf
        y1 == y \div WHalf
        y0 == y % WHalf
        mid == x1 * y0 + x0 * y1
    IN  WNorm(x1 * y1 + (mid \div WHalf), (mid % WHalf) * WHalf + x0 * y0)

\* k * u for a small integer k (|k| below 2000).
WTimes(k, u) == WNorm(k * u[1], k * u[2])

\* u / k rounded to the nearest integer, halves away from zero (0 < k < 2000).
WRDiv(u, k) ==
    LET a == WAbs(u)
        rest == (a[1] % k) * WBase + a[2] + (k \div 2)
        q == WNorm(a[1] \div k, rest \div k)
    IN  IF WIsNeg(u) THEN WNeg(q) ELSE q

\* The integer a wide value stands for (it must fit).
WInt(u) == u[1] * WBase + u[2]

\* Products on the grid with a wide result.
WMul(x, y) == WRDiv(WProd(x, y), Scale)

WMulW(k, u) == WRDiv(WTimes(k, u), Scale)

-----------------------------------------------------------------------------
(* vector.js *)

Vec(x, y, z) == [x |-> x, y |-> y, z |-> z]

\* new Vector3(x, y, z) for integer literals of the source.
V3(x, y, z) == Vec(Num(x), Num(y), Num(z))

Vector3_copyFrom(v) == Vec(v.x, v.y, v.z)

Vector3_length(v) ==
    Math_sqrt(Add(Add(Mul(v.x, v.x), Mul(v.y, v.y)), Mul(v.z, v.z)))

Vector3_normalize(v) ==
    LET length == Vector3_length(v)
    IN  IF GtEps1em4(length)
        THEN Vec(Div(v.x, length), Div(v.y, length), Div(v.z, length))
        ELSE v

Vector3_dot(a, b) == Add(Add(Mul(a.x, b.x), Mul(a.y, b.y)), Mul(a.z, b.z))

Vector3_subtract(a, b) == Vec(Sub(a.x, b.x), Sub(a.y, b.y), Sub(a.z, b.z))

Vector3_add(a, b) == Vec(Add(a.x, b.x), Add(a.y, b.y), Add(a.z, b.z))

Vector3_scale(v, factor) == Vec(Mul(v.x, factor), Mul(v.y, factor), Mul(v.z, factor))

Vector3_componentScale(v, factor) ==
    Vec(Mul(v.x, factor.x), Mul(v.y, factor.y), Mul(v.z, factor.z))

Vector3_addMul(a, b, factor) ==
    Vec(Add(a.x, Mul(b.x, factor)), Add(a.y, Mul(b.y, factor)),
        Add(a.z, Mul(b.z, factor)))

Vector3_negate(v) == Vec(Sub(0, v.x), Sub(0, v.y), Sub(0, v.z))

\* reflect that subtracts n (v . n) once: the projection onto the plane.
Vector3_reflect_project(v, n) ==
    LET scaledN == Vector3_scale(Vector3_copyFrom(n), Vector3_dot(v, n))
    IN  Vector3_subtract(v, scaledN)

Vector3_reflect(v, n) ==
    LET scaledN == Vector3_scale(Vector3_copyFrom(n), Mul(Vector3_dot(v, n), Num(2)))
    IN  Vector3_subtract(v, scaledN)

Vec2(x, y) == [x |-> x, y |-> y]

Vector2_add(a, b) == Vec2(a.x + b.x, a.y + b.y)

-----------------------------------------------------------------------------
(* ray.js *)

Ray(origin, direction) == [origin |-> origin, direction |-> direction]

Ray_pointOnRay(ray, t) == Vector3_addMul(ray.origin, ray.direction, t)

\* JavaScript's undefined.
Undefined == [tag |-> "undefined"]

\* A thrown exception, which unwinds every caller up to draw().
Thrown(what) == [tag |-> "throw", error |-> what]

IsThrown(v) == "tag" \in DOMAIN v /\ v.tag = "throw"

-----------------------------------------------------------------------------
(* The primitives: SceneObject, Sphere, Plane and Box *)

\* new SceneObject(material): the base class, with no geometry of its own.
SceneObject(material) == [type |-> "SceneObject", material_ |-> material]

Sphere(center, radius, material) ==
    [type |-> "Sphere", center_ |-> center, radius_ |-> radius,
     material_ |-> material]

Plane(normal, offset, material) ==
    [type |-> "Plane", normal_ |-> normal, offset_ |-> offset,
     material_ |-> material]

Box(width, height, depth, center, material) ==
    LET width2 == Div(width, Num(2))
        height2 == Div(height, Num(2))
        depth2 == Div(depth, Num(2))
    IN  [type |-> "Box",
         p0_ |-> Vector3_subtract(center, Vec(width2, height2, depth2)),
         p1_ |-> Vector3_add(center, Vec(width2, height2, depth2)),
         material_ |-> material]

\* Vector3.dot(dst, dst) of Sphere.intersect, with a wide result.
Vector3_dotWide(a, b) ==
    WAdd(WAdd(WMul(a.x, b.x), WMul(a.y, b.y)), WMul(a.z, b.z))

Sphere_normal(this, ray, t) ==
    LET worldPos == Ray_pointOnRay(ray, t)
        v == Vector3_subtract(worldPos, this.center_)
    IN  Vector3_normalize(v)

\* The quadratic of Sphere.intersect: a, b and discrim_sq (wide).
Sphere_quadratic(this, ray) ==
    LET dst == Vector3_subtract(ray.origin, this.center_)
        a == Vector3_dot(ray.direction, ray.direction)
        b == Mul(Num(2), Vector3_dot(ray.direction, dst))
        c == WSub(Vector3_dotWide(dst, dst), WMul(this.radius_, this.radius_))
    IN  [a |-> a, b |-> b,
         discrim_sq |-> WSub(WMul(b, b), WMulW(Mul(Num(4), a), c))]

\* intersect that returns the farther of the two roots.
Sphere_intersect_farRoot(this, ray) ==
    LET hit(t) == [t |-> t, normal |-> Sphere_normal(this, ray, t)]
        solve(q) ==
            IF WIsNeg(q.discrim_sq) THEN Undefined
            ELSE IF WLess(WOf(Eps1em2), WAbs(q.discrim_sq))
            THEN hit(Div(-q.b + Math_sqrt(WInt(q.discrim_sq)), Mul(Num(2), q.a)))
            ELSE hit(Div(-q.b, Mul(Num(2), q.a)))
    IN  solve(Sphere_quadratic(this, ray))

\* hit(t) is the object returned for the root t; solve(q) picks the root from
\* the quadratic q.
Sphere_intersect(this, ray) ==
    LET hit(t) == [t |-> t, normal |-> Sphere_normal(this, ray, t)]
        solve(q) ==
            IF WIsNeg(q.discrim_sq) THEN Undefined
            ELSE IF WLess(WOf(Eps1em2), WAbs(q.discrim_sq))
            THEN hit(Div(-q.b - Math_sqrt(WInt(q.discrim_sq)), Mul(Num(2), q.a)))
            ELSE hit(Div(-q.b, Mul(Num(2), q.a)))
    IN  solve(Sphere_quadratic(this, ray))

\* intersect that returns the normal turned to face the ray's origin.
Plane_intersect_facing(this, ray) ==
    LET Vd == Vector3_dot(this.normal_, ray.direction)
        V0 == -(Vector3_dot(this.normal_, ray.origin) - this.offset_)
        t == Div(V0, Vd)
    IN  IF Lt(Math_abs(Vd), Eps1em2) THEN Undefined
        ELSE IF Lt(t, 0) THEN Undefined
        ELSE [t |-> t,
              normal |-> IF Gt(Vd, 0) THEN Vector3_negate(this.normal_)
                                      ELSE this.normal_]

Plane_intersect(this, ray) ==
    LET Vd == Vector3_dot(this.normal_, ray.direction)
        V0 == -(Vector3_dot(this.normal_, ray.origin) - this.offset_)
        t == Div(V0, Vd)
    IN  IF Lt(Math_abs(Vd), Eps1em2) THEN Undefined
        ELSE IF Lt(t, 0) THEN Undefined
        ELSE [t |-> t, normal |-> this.normal_]

Box_sign_(x) == IF LtEps1em5(Math_abs(x)) THEN 0 ELSE IF Lt(x, 0) THEN -1 ELSE 1

\* Box.sign_ of a number written in units of 1e-6: 1e-5 is ten of them.
Box_sign_micro(x) == IF Lt(Math_abs(x), 10) THEN 0 ELSE IF Lt(x, 0) THEN -1 ELSE 1

\* The entry and exit parameters of one slab of Box.intersect.
Box_slab(p0, p1, o, d) ==
    IF Ge(d, 0) THEN [min |-> Div(p0 - o, d), max |-> Div(p1 - o, d)]
                ELSE [min |-> Div(p1 - o, d), max |-> Div(p0 - o, d)]

\* intersect that returns the parameter of the exit point.
Box_intersect_exit(this, ray) ==
    LET tx == Box_slab(this.p0_.x, this.p1_.x, ray.origin.x, ray.direction.x)
        ty == Box_slab(this.p0_.y, this.p1_.y, ray.origin.y, ray.direction.y)
        tz == Box_slab(this.p0_.z, this.p1_.z, ray.origin.z, ray.direction.z)
        t0 == Math_max(tx.min, Math_max(ty.min, tz.min))
        t1 == Math_min(tx.max, Math_min(ty.max, tz.max))
    IN  IF Lt(t0, t1) THEN [t |-> t1, normal |-> V3(0, 0, -Box_sign_(ray.direction.z))]
        ELSE Undefined

\* The body of Box.intersect, sign holding Box.sign_ of the three components
\* of the ray's direction.  Each slab divides differences of coordinates of
\* one axis by the direction's component on that axis, so the unit the
\* coordinates of an axis are written in does not matter to it; only sign_
\* compares a component with an absolute number.
Box_intersect_signed(this, ray, sign) ==
    LET tx == Box_slab(this.p0_.x, this.p1_.x, ray.origin.x, ray.direction.x)
        ty == Box_slab(this.p0_.y, this.p1_.y, ray.origin.y, ray.direction.y)
        tz == Box_slab(this.p0_.z, this.p1_.z, ray.origin.z, ray.direction.z)
        t0x == tx.min
        nx == V3(-sign.x, 0, 0)
        t0y == IF Lt(t0x, ty.min) THEN ty.min ELSE t0x
        ny == IF Lt(t0x, ty.min) THEN V3(0, -sign.y, 0) ELSE nx
        t0 == IF Lt(t0y, tz.min) THEN tz.min ELSE t0y
        normal == IF Lt(t0y, tz.min) THEN V3(0, 0, -sign.z) ELSE ny
        t1 == Math_min(tx.max, Math_min(ty.max, tz.max))
    IN  IF Lt(t0, t1) THEN [t |-> t0, normal |-> normal] ELSE Undefined

\* Box.intersect for a box and a ray whose x coordinates are written in
\* units of 1e-6, the other two on the grid.
Box_intersect_microX(this, ray) ==
    Box_intersect_signed(this, ray, [x |-> Box_sign_micro(ray.direction.x),
                                     y |-> Box_sign_(ray.direction.y),
                                     z |-> Box_sign_(ray.direction.z)])

Box_intersect(this, ray) ==
    Box_intersect_signed(this, ray, [x |-> Box_sign_(ray.direction.x),
                                     y |-> Box_sign_(ray.direction.y),
                                     z |-> Box_sign_(ray.direction.z)])

\* obj.intersect(ray): the method the object's prototype chain resolves to.
SceneObject_intersect(obj, ray) ==
    CASE obj.type = "Sphere" -> Sphere_intersect(obj, ray)
      [] obj.type = "Plane" -> Plane_intersect(obj, ray)
      [] obj.type = "Box" -> Box_intersect(obj, ray)
      [] OTHER -> Thrown("intersect is not implemented.")

\* The loop body without the comparison of t: the last primitive hit wins.
Scene_closer_lastHit(st, objectIdx, intersect) ==
    IF IsThrown(intersect) THEN intersect
    ELSE IF intersect # Undefined
    THEN [closest_t |-> intersect.t, closest_obj |-> objectIdx,
          closest_intersection |-> intersect]
    ELSE st

\* The body of the loop of intersectRayWithScene(ray): the loop state after
\* the object objectIdx answered intersect.  An object reference is its index
\* in the scene; closest_obj = 0 stands for undefined.
Scene_closer(st, objectIdx, intersect) ==
    IF IsThrown(intersect) THEN intersect
    ELSE IF intersect # Undefined /\ Lt(intersect.t, st.closest_t)
    THEN [closest_t |-> intersect.t, closest_obj |-> objectIdx,
          closest_intersection |-> intersect]
    ELSE st

\* The loop over objects[objectIdx..]: the loop state after the last object,
\* or the exception that ended the loop.
RECURSIVE Scene_scan(_, _, _, _)
Scene_scan(objects, ray, objectIdx, st) ==
    IF objectIdx > Len(objects) \/ IsThrown(st) THEN st
    ELSE Scene_scan(objects, ray, objectIdx + 1,
                    Scene_closer(st, objectIdx,
                                 SceneObject_intersect(objects[objectIdx], ray)))

\* The end of the query that answers a miss with the values its loop
\* started from.
Scene_result_sentinel(st) ==
    IF IsThrown(st) THEN st
    ELSE [t |-> st.closest_t,
          normal |-> IF st.closest_obj = 0 THEN Undefined
                     ELSE st.closest_intersection.normal,
          obj |-> st.closest_obj]

\* The end of intersectRayWithScene(ray): what it returns for the loop state.
Scene_result(st) ==
    IF IsThrown(st) THEN st
    ELSE IF st.closest_obj = 0 THEN Undefined
    ELSE [t |-> st.closest_t,
          normal |-> st.closest_intersection.normal,
          obj |-> st.closest_obj]

intersectRayWithScene(objects, ray) ==
    Scene_result(Scene_scan(objects, ray, 1,
                            [closest_t |-> Infinity, closest_obj |-> 0,
                             closest_intersection |-> Undefined]))

-----------------------------------------------------------------------------
(* The primitives whose intersect returns the list of ray parameters, and  *)
(* the scene query over them, with its two optional arguments.             *)

Sphere_intersect_list(this, ray) ==
    LET roots(q, discrim) ==
            IF WLess(WOf(Eps1em2), WAbs(q.discrim_sq))
            THEN <<Div(-q.b - discrim, Mul(Num(2), q.a)),
                   Div(-q.b + discrim, Mul(Num(2), q.a))>>
            ELSE <<Div(-q.b, Mul(Num(2), q.a))>>
        solve(q) ==
            IF WIsNeg(q.discrim_sq) THEN <<>>
            ELSE roots(q, Math_sqrt(WInt(q.discrim_sq)))
    IN  solve(Sphere_quadratic(this, ray))

Plane_intersect_list(this, ray) ==
    LET Vd == Vector3_dot(this.normal_, ray.direction)
        V0 == -(Vector3_dot(this.normal_, ray.origin) - this.offset_)
        t == Div(V0, Vd)
    IN  IF Lt(Math_abs(Vd), Eps1em2) THEN <<>>
        ELSE IF Lt(t, 0) THEN <<>>
        ELSE <<t>>

Box_intersect_list(this, ray) ==
    LET tx == Box_slab(this.p0_.x, this.p1_.x, ray.origin.x, ray.direction.x)
        ty == Box_slab(this.p0_.y, this.p1_.y, ray.origin.y, ray.direction.y)
        tz == Box_slab(this.p0_.z, this.p1_.z, ray.origin.z, ray.direction.z)
        t0 == Math_max(tx.min, Math_max(ty.min, tz.min))
        t1 == Math_min(tx.max, Math_min(ty.max, tz.max))
    IN  IF Lt(t0, t1) THEN <<t0, t1>> ELSE <<>>

Object_intersect_list(obj, ray) ==
    CASE obj.type = "Sphere" -> Sphere_intersect_list(obj, ray)
      [] obj.type = "Plane" -> Plane_intersect_list(obj, ray)
      [] obj.type = "Box" -> Box_intersect_list(obj, ray)

\* The inner loop over t[items]: the closest pair after the list.
RECURSIVE Scene_items(_, _, _, _)
Scene_items(t, items, objectIdx, st) ==
    IF items > Len(t) THEN st
    ELSE IF Lt(t[items], st.closest_t)
    THEN Scene_items(t, items + 1, objectIdx,
                     [st EXCEPT !.closest_t = t[items], !.closest_obj = objectIdx])
    ELSE Scene_items(t, items + 1, objectIdx, st)

\* The end of the loop body without the break.
Scene_break_list_never(opt_stopOnFirstIntersection, st) == st

\* if (closest_obj && opt_stopOnFirstIntersection) break;
Scene_break_list(opt_stopOnFirstIntersection, st) ==
    [st EXCEPT !.stopped = st.closest_obj # 0 /\ opt_stopOnFirstIntersection]

\* The outer loop without the comparison with opt_skipObject.
RECURSIVE Scene_scan_list_all(_, _, _, _, _, _)
Scene_scan_list_all(objects, ray, opt_stopOnFirstIntersection, opt_skipObject, objectIdx, st) ==
    IF objectIdx > Len(objects) \/ st.stopped THEN st
    ELSE Scene_scan_list_all(objects, ray, opt_stopOnFirstIntersection,
                             opt_skipObject, objectIdx + 1,
                             Scene_break_list(opt_stopOnFirstIntersection,
                                 Scene_items(Object_intersect_list(objects[objectIdx], ray),
                                             1, objectIdx,
                                             [st EXCEPT !.tested = Append(@, objectIdx)])))

\* The outer loop.  tested lists the objects whose intersect was called,
\* stopped is set by the break; opt_skipObject = 0 stands for an argument
\* that was not given.
RECURSIVE Scene_scan_list(_, _, _, _, _, _)
Scene_scan_list(objects, ray, opt_stopOnFirstIntersection, opt_skipObject, objectIdx, st) ==
    IF objectIdx > Len(objects) \/ st.stopped THEN st
    ELSE IF objectIdx = opt_skipObject
    THEN Scene_scan_list(objects, ray, opt_stopOnFirstIntersection,
                         opt_skipObject, objectIdx + 1, st)
    ELSE Scene_scan_list(objects, ray, opt_stopOnFirstIntersection,
                         opt_skipObject, objectIdx + 1,
                         Scene_break_list(opt_stopOnFirstIntersection,
                             Scene_items(Object_intersect_list(objects[objectIdx], ray),
                                         1, objectIdx,
                                         [st EXCEPT !.tested = Append(@, objectIdx)])))

Scene_loop_list(objects, ray, opt_stopOnFirstIntersection, opt_skipObject) ==
    Scene_scan_list(objects, ray, opt_stopOnFirstIntersection, opt_skipObject, 1,
                    [closest_t |-> Infinity, closest_obj |-> 0, tested |-> <<>>,
                     stopped |-> FALSE])

\* The end of the query: undefined, or r with r.t and r.obj.
Scene_result_list(st) ==
    IF st.closest_obj = 0 THEN Undefined
    ELSE [t |-> st.closest_t, obj |-> st.closest_obj]

intersectRayWithScene_list(objects, ray, opt_stopOnFirstIntersection, opt_skipObject) ==
    Scene_result_list(Scene_loop_list(objects, ray, opt_stopOnFirstIntersection,
                                      opt_skipObject))

-----------------------------------------------------------------------------
(* lights.js *)

DirectionalLight(direction, color) == [direction_ |-> direction, color_ |-> color]

Irradiance(direction, color, lightVisible) ==
    [direction |-> direction, color |-> color, lightVisible |-> lightVisible]

LIGHT_STEP_SIZE_ == 10000

\* The shadow ray of evaluateLight: from a very large step against the
\* light's direction, along the light's direction.
DirectionalLight_shadowRay(this, pos) ==
    LET lightPosition == Vector3_addMul(pos, this.direction_, -Num(LIGHT_STEP_SIZE_))
    IN  Ray(lightPosition, this.direction_)

\* The end of evaluateLight that calls the light visible whenever the shadow
\* ray hit anything.
DirectionalLight_irradiance_anyHit(this, shadowTest) ==
    IF IsThrown(shadowTest) THEN shadowTest
    ELSE IF shadowTest = Undefined THEN Thrown("TypeError")
    ELSE Irradiance(this.direction_, this.color_, TRUE)

\* The end of evaluateLight, from the answer of the shadow test.  Reading
\* shadowTest.t when the shadow ray hit nothing is a TypeError.
DirectionalLight_irradiance(this, shadowTest) ==
    IF IsThrown(shadowTest) THEN shadowTest
    ELSE IF shadowTest = Undefined THEN Thrown("TypeError")
    ELSE Irradiance(this.direction_, this.color_,
                    Lt(Math_abs(Sub(shadowTest.t, Num(LIGHT_STEP_SIZE_))), Eps1em2))

DirectionalLight_evaluateLight(this, pos, normal, objects) ==
    DirectionalLight_irradiance(this,
        intersectRayWithScene(objects, DirectionalLight_shadowRay(this, pos)))

\* The irradiances so far with one more, or the exception evaluateLight threw.
Lights_append(acc, irradiance) ==
    IF IsThrown(irradiance) THEN irradiance
    ELSE [list |-> Append(acc.list, irradiance)]

\* Lights.forEachLight: the irradiances handed to the closure, in order, as
\* [list |-> ...]; an exception of evaluateLight ends the iteration.
RECURSIVE Lights_irradiances(_, _, _, _, _, _)
Lights_irradiances(lights, k, pos, normal, objects, acc) ==
    IF k > Len(lights) \/ IsThrown(acc) THEN acc
    ELSE Lights_irradiances(lights, k + 1, pos, normal, objects,
             Lights_append(acc,
                 DirectionalLight_evaluateLight(lights[k], pos, normal, objects)))

Lights_forEachLight(lights, pos, normal, objects) ==
    Lights_irradiances(lights, 1, pos, normal, objects, [list |-> <<>>])

-----------------------------------------------------------------------------
(* materials.js *)

Material == [type |-> "Material"]

AmbientMaterial(color) == [type |-> "Ambient", color_ |-> color]

DiffuseMaterial(color, opt_ambientColor) ==
    [type |-> "Diffuse", color_ |-> color, ambientColor_ |-> opt_ambientColor]

SpecularMaterial(specularColor, specularPower, diffuseMaterial) ==
    [type |-> "Specular", specularColor_ |-> specularColor,
     specularPower_ |-> specularPower, diffuseMaterial_ |-> diffuseMaterial]

CheckerMaterial(material1, material2) ==
    [type |-> "Checker", material1 |-> material1, material2 |-> material2]

ShadeContext(object, ray, t, normal) ==
    [object |-> object, ray |-> ray, t |-> t, normal |-> normal]

\* The diffuse response without the test of lightVisible.
DiffuseMaterial_evaluateRadiance_unshadowed(this, irradiance, pos, normal) ==
    LET lambert == Math_max(-Vector3_dot(normal, irradiance.direction), 0)
        c == Vector3_scale(irradiance.color, lambert)
    IN  Vector3_componentScale(c, this.color_)

DiffuseMaterial_evaluateRadiance_(this, irradiance, pos, normal) ==
    IF irradiance.lightVisible
    THEN LET lambert == Math_max(-Vector3_dot(normal, irradiance.direction), 0)
             c == Vector3_scale(irradiance.color, lambert)
         IN  Vector3_componentScale(c, this.color_)
    ELSE V3(0, 0, 0)

SpecularMaterial_evaluateRadiance_(this, irradiance, pos, normal, context) ==
    LET r == Vector3_reflect(context.ray.direction, normal)
        pow == Math_pow(Math_max(-Vector3_dot(r, irradiance.direction), 0),
                        this.specularPower_)
    IN  Vector3_scale(irradiance.color, pow)

\* color.add(c) for every light, starting from color.
RECURSIVE Diffuse_closure(_, _, _, _, _, _)
Diffuse_closure(this, irradiances, k, worldPos, normal, color) ==
    IF k > Len(irradiances) THEN color
    ELSE Diffuse_closure(this, irradiances, k + 1, worldPos, normal,
             Vector3_add(color,
                 DiffuseMaterial_evaluateRadiance_(this, irradiances[k], worldPos, normal)))

\* lit(worldPos, irradiances) is the colour once forEachLight has run.
DiffuseMaterial_evaluate(this, context, objects, lights) ==
    LET lit(worldPos, irradiances) ==
            IF IsThrown(irradiances) THEN irradiances
            ELSE Vector3_add(Diffuse_closure(this, irradiances.list, 1, worldPos,
                                             context.normal, V3(0, 0, 0)),
                             Vector3_componentScale(this.ambientColor_, this.color_))
        at(worldPos) ==
            lit(worldPos, Lights_forEachLight(lights, worldPos, context.normal, objects))
    IN  at(Ray_pointOnRay(context.ray, context.t))

\* diffuseColor.add(...) and specularColor.add(...) for every light.
RECURSIVE Specular_closure(_, _, _, _, _, _)
Specular_closure(this, irradiances, k, worldPos, context, acc) ==
    IF k > Len(irradiances) THEN acc
    ELSE Specular_closure(this, irradiances, k + 1, worldPos, context,
             [diffuseColor |-> Vector3_add(acc.diffuseColor,
                  DiffuseMaterial_evaluateRadiance_(this.diffuseMaterial_,
                      irradiances[k], worldPos, context.normal)),
              specularColor |-> Vector3_add(acc.specularColor,
                  SpecularMaterial_evaluateRadiance_(this, irradiances[k],
                      worldPos, context.normal, context))])

SpecularMaterial_evaluate(this, context, objects, lights) ==
    LET sum(acc) == Vector3_add(acc.diffuseColor, acc.specularColor)
        lit(worldPos, irradiances) ==
            IF IsThrown(irradiances) THEN irradiances
            ELSE sum(Specular_closure(this, irradiances.list, 1, worldPos, context,
                                      [diffuseColor |-> V3(0, 0, 0),
                                       specularColor |-> V3(0, 0, 0)]))
        at(worldPos) ==
            lit(worldPos, Lights_forEachLight(lights, worldPos, context.normal, objects))
    IN  at(Ray_pointOnRay(context.ray, context.t))

\* The bit with the quotient truncated toward zero instead of floored.
Checker_bit_truncate(c) == (Abs(c) \div Num(4)) % 2

\* Math.floor(c / 4) & 1 for a world coordinate c.
Checker_bit(c) == (c \div Num(4)) % 2

\* 1 for material1, 2 for material2.
CheckerMaterial_select(this, context) ==
    LET worldPos == Ray_pointOnRay(context.ray, context.t)
        x == Checker_bit(worldPos.x)
        z == Checker_bit(worldPos.z)
    IN  IF x # z THEN 1 ELSE 2

\* evaluate as the prototype chain would resolve it if CheckerMaterial did
\* not define its own: the base class answers for it.
Material_evaluate_base(this, context, objects, lights) ==
    CASE this.type = "Ambient" -> this.color_
      [] this.type = "Diffuse" -> DiffuseMaterial_evaluate(this, context, objects, lights)
      [] this.type = "Specular" -> SpecularMaterial_evaluate(this, context, objects, lights)
      [] OTHER -> Thrown("evaluate is not implemented.")

\* material.evaluate(context): the method the material's prototype chain
\* resolves to.
RECURSIVE Material_evaluate(_, _, _, _)
Material_evaluate(this, context, objects, lights) ==
    CASE this.type = "Ambient" -> this.color_
      [] this.type = "Diffuse" -> DiffuseMaterial_evaluate(this, context, objects, lights)
      [] this.type = "Specular" -> SpecularMaterial_evaluate(this, context, objects, lights)
      [] this.type = "Checker" ->
            Material_evaluate(IF CheckerMaterial_select(this, context) = 1
                              THEN this.material1 ELSE this.material2,
                              context, objects, lights)
      [] OTHER -> Thrown("evaluate is not implemented.")

\* material.evaluateRadiance_(irradiance, pos, normal, context): the method
\* the prototype chain resolves to.  CheckerMaterial does not inherit from
\* Material and defines none, so the call is a TypeError.
Material_evaluateRadiance_(this, irradiance, pos, normal, context) ==
    CASE this.type = "Ambient" -> this.color_
      [] this.type = "Diffuse" ->
            DiffuseMaterial_evaluateRadiance_(this, irradiance, pos, normal)
      [] this.type = "Specular" ->
            SpecularMaterial_evaluateRadiance_(this, irradiance, pos, normal, context)
      [] this.type = "Checker" -> Thrown("TypeError")
      [] OTHER -> Thrown("evaluateRadiance_ is not implemented.")

SceneObject_shade(this, context, objects, lights) ==
    Material_evaluate(this.material_, context, objects, lights)

-----------------------------------------------------------------------------
(* sampler.js *)

\* sampleWeight is not set by the constructor: it is undefined, which the
\* arithmetic of accumulateSample reads as NaN.
Sampler(numSamples) ==
    [numSamples_ |-> numSamples, remainingSamples_ |-> numSamples,
     colorAccumulator_ |-> V3(0, 0, 0), sampleWeight |-> NaN]

Sampler_hasNext(this) == this.remainingSamples_ > 0

\* hasNext() that uses a sample up when it answers true.
Sampler_hasNext_consuming(this) ==
    IF this.remainingSamples_ > 0 THEN [this EXCEPT !.remainingSamples_ = @ - 1] ELSE this

\* The sampler after hasNext(): the method assigns nothing.
Sampler_hasNext_this(this) == this

\* next() without the test for an expired iterator.
Sampler_next_unguarded(this) ==
    [this |-> [this EXCEPT !.remainingSamples_ = @ - 1,
                           !.sampleWeight = Div(Num(1), Num(this.numSamples_))],
     ret |-> Vec2(0, 0)]

\* next() that hands out an offset without counting it.
Sampler_next_uncounted(this) ==
    IF this.remainingSamples_ <= 0
    THEN [this |-> this, ret |-> Undefined]
    ELSE [this |-> [this EXCEPT !.sampleWeight = Div(Num(1), Num(this.numSamples_))],
          ret |-> Vec2(0, 0)]

\* next(): the sampler afterwards and the value returned.
Sampler_next(this) ==
    IF this.remainingSamples_ <= 0
    THEN [this |-> this, ret |-> Undefined]
    ELSE [this |-> [this EXCEPT !.remainingSamples_ = @ - 1,
                                !.sampleWeight = Div(Num(1), Num(this.numSamples_))],
          ret |-> Vec2(0, 0)]

\* reset() that rearms the counter but keeps the accumulated colour.
Sampler_reset_keepColor(this) ==
    [this EXCEPT !.remainingSamples_ = this.numSamples_]

Sampler_reset(this) ==
    [this EXCEPT !.remainingSamples_ = this.numSamples_,
                 !.colorAccumulator_ = V3(0, 0, 0)]

\* accumulateSample that adds the colour without its weight.
Sampler_accumulateSample_unweighted(this, color) ==
    [this EXCEPT !.colorAccumulator_ = Vector3_add(@, color)]

Sampler_accumulateSample(this, color) ==
    [this EXCEPT !.colorAccumulator_ = Vector3_addMul(@, color, this.sampleWeight)]

Sampler_result(this) == this.colorAccumulator_

\* result() that hands the colour over and clears the accumulator.
Sampler_result_clearing(this) == [this EXCEPT !.colorAccumulator_ = V3(0, 0, 0)]

\* The sampler after result(): the method assigns nothing.
Sampler_result_this(this) == this

-----------------------------------------------------------------------------
(* Object identity.  The vectors above are values; the methods of           *)
(* Vector3.prototype assign the components of their receiver, so which      *)
(* object a method is called on matters where the object is a field of the  *)
(* scene.  A reference is the path of that field in                         *)
(* [g_objects |-> ..., g_lights |-> ...], or New for an object that a       *)
(* constructor call made while the sample was traced, or one the scene      *)
(* does not hold.                                                           *)

New == <<>>

\* v with the component at path replaced by value.
RECURSIVE WriteAt(_, _, _)
WriteAt(v, path, value) ==
    IF path = <<>> THEN value
    ELSE [v EXCEPT ![Head(path)] = WriteAt(v[Head(path)], Tail(path), value)]

\* The scene after this.x, this.y and this.z of the receiver were assigned.
Vector3_assign(scene, receiver, value) ==
    IF receiver = New THEN scene ELSE WriteAt(scene, receiver, value)

\* The scene after a sequence of such calls, each [receiver, value].
RECURSIVE Scene_assign(_, _, _)
Scene_assign(scene, writes, k) ==
    IF k > Len(writes) THEN scene
    ELSE Scene_assign(Vector3_assign(scene, writes[k].receiver, writes[k].value),
                      writes, k + 1)

\* copyFrom that hands back its argument instead of a copy.
Vector3_copyFrom_alias(v) == v

\* The object Vector3.copyFrom(v) returns: new Vector3(v.x, v.y, v.z).
Vector3_copyFrom_ref(v) == New

\* The object Vector3.scale(v, factor) returns: a new Vector3.
Vector3_scale_ref(v) == New

\* The normal of the hit that obj.intersect returns: Plane hands out its own
\* normal_, Sphere and Box build a vector.
SceneObject_normal_ref(obj, objectIdx) ==
    IF obj.type = "Plane" THEN <<"g_objects", objectIdx, "normal_">> ELSE New

\* The colour material.evaluate returns, for the material held at the path
\* ref: AmbientMaterial hands out its own color_, CheckerMaterial what the
\* chosen material returns, the others build a vector.
RECURSIVE Material_evaluate_ref(_, _, _)
Material_evaluate_ref(this, ref, context) ==
    CASE this.type = "Ambient" -> ref \o <<"color_">>
      [] this.type = "Checker" ->
            IF CheckerMaterial_select(this, context) = 1
            THEN Material_evaluate_ref(this.material1, ref \o <<"material1">>, context)
            ELSE Material_evaluate_ref(this.material2, ref \o <<"material2">>, context)
      [] OTHER -> New

\* c.componentScale(this.color_) of DiffuseMaterial.evaluateRadiance_, once
\* for every light that is visible: c is what Vector3.scale made of the
\* colour of the irradiance, which is the light's own color_.
Diffuse_writes(this, irradiances, context) ==
    [k \in 1..Len(irradiances) |->
        [receiver |-> IF irradiances[k].lightVisible
                      THEN Vector3_scale_ref(<<"g_lights", k, "color_">>)
                      ELSE New,
         value |-> DiffuseMaterial_evaluateRadiance_(this, irradiances[k],
                       Ray_pointOnRay(context.ray, context.t), context.normal)]]

\* scaledN.scale(...) of Vector3.reflect, once for every light: scaledN is
\* what Vector3.copyFrom made of the normal of the hit.
Specular_writes(this, irradiances, context, normalRef) ==
    [k \in 1..Len(irradiances) |->
        [receiver |-> Vector3_copyFrom_ref(normalRef),
         value |-> Vector3_scale(context.normal,
                       Mul(Vector3_dot(context.ray.direction, context.normal), Num(2)))]]

\* The calls of methods of Vector3.prototype that material.evaluate makes on
\* objects that were not built by a constructor call in the same function.
\* irradiances is what forEachLight hands to the closure; an exception of
\* the first light comes before any such call.
RECURSIVE Material_writes(_, _, _, _)
Material_writes(this, irradiances, context, normalRef) ==
    IF IsThrown(irradiances) THEN <<>>
    ELSE CASE this.type = "Diffuse" -> Diffuse_writes(this, irradiances.list, context)
           [] this.type = "Specular" ->
                 Diffuse_writes(this.diffuseMaterial_, irradiances.list, context)
                     \o Specular_writes(this, irradiances.list, context, normalRef)
           [] this.type = "Checker" ->
                 Material_writes(IF CheckerMaterial_select(this, context) = 1
                                 THEN this.material1 ELSE this.material2,
                                 irradiances, context, normalRef)
           [] OTHER -> <<>>


\* The receiver of addMul in accumulateSample(color): this.colorAccumulator_,
\* which the Sampler constructor built.
Sampler_accumulateSample_receiver(accumulator, color) == accumulator

-----------------------------------------------------------------------------
(* raytracer.js and its Processing twin: the scene and draw() *)

\* The image is Width x Height pixels.
Width == 4

Height == 4

\* Frames drawn before the model stops.
MaxFrames == 2

\* Samples per pixel the Sampler may be built with.
MaxSamples == 2

g_width == Num(Width)

g_height == Num(Height)

g_eye_origin == V3(0, 0, -10)

g_near_plane == 0

\* Math.sin(n) for the frame numbers 0..8, rounded to the grid.
Math_sin(n) == <<0, 84, 91, 14, -76, -96, -28, 66, 99>>[n + 1]

redDiffuse == DiffuseMaterial(V3(1, 0, 0), Vec(10, 0, 0))

redSpecular == SpecularMaterial(V3(1, 1, 1), 8, redDiffuse)

yellowCheck == DiffuseMaterial(V3(1, 1, 0), Vec(40, 40, 0))

blueCheck == DiffuseMaterial(V3(0, 0, 1), Vec(0, 0, 40))

greenDiffuse == DiffuseMaterial(V3(0, 1, 0), Vec(0, 20, 0))

\* g_objects after initScene(); g_sphere is g_objects[1].
initScene_objects ==
    << Sphere(V3(0, 0, 10), Num(5), redSpecular),
       Plane(V3(0, 1, 0), Num(-4), CheckerMaterial(yellowCheck, blueCheck)),
       Box(Num(2), Num(2), Num(2), Vec(-350, -250, 100), greenDiffuse) >>

\* The scene with other materials on the same primitives: an AmbientMaterial
\* on the sphere, and on the plane a checker of an AmbientMaterial and the
\* specular material.
ambientScene_objects ==
    << Sphere(V3(0, 0, 10), Num(5), AmbientMaterial(V3(1, 0, 0))),
       Plane(V3(0, 1, 0), Num(-4),
             CheckerMaterial(AmbientMaterial(V3(1, 1, 0)), redSpecular)),
       Box(Num(2), Num(2), Num(2), Vec(-350, -250, 100), greenDiffuse) >>

initScene_lights == << DirectionalLight(V3(0, -1, 0), V3(1, 1, 1)) >>

buildRay(sx, sy) ==
    LET width2 == Div(g_width, Num(2))
        height2 == Div(g_height, Num(2))
        x == Mul(Div(sx - width2, width2), Num(5))
        y == Mul(Div(height2 - sy, height2), Num(5))
        d == Vec(x, y, g_near_plane - g_eye_origin.z)
    IN  Ray(g_eye_origin, Vector3_normalize(d))

\* Vector3.prototype.clamp, called by setPixel and clearBackground.  vector.js
\* does not define it; it is taken to clamp each component to [0, 1] in
\* place, as the design document describes the write of a pixel.
Vector3_clamp(v) ==
    Vec(Math_min(Math_max(v.x, 0), Num(1)), Math_min(Math_max(v.y, 0), Num(1)),
        Math_min(Math_max(v.z, 0), Num(1)))

\* The three numbers of the CSS colour colorToString builds.
colorToString(c) == Vec(Math_floor(c.x), Math_floor(c.y), Math_floor(c.z))

\* The colour setPixel(context, x, y, color) fills the pixel with.
setPixel(color) ==
    LET c == Vector3_componentScale(Vector3_clamp(Vector3_copyFrom(color)), V3(255, 255, 255))
    IN  colorToString(c)

\* The colour clearBackground(context, color) fills the canvas with.
clearBackground(color) ==
    LET c == Vector3_componentScale(Vector3_clamp(Vector3_copyFrom(color)), V3(255, 255, 255))
    IN  colorToString(c)

\* stroke(pixelColor.x * 255, pixelColor.y * 255, pixelColor.z * 255).
stroke(pixelColor) ==
    Vec(Mul(pixelColor.x, Num(255)), Mul(pixelColor.y, Num(255)), Mul(pixelColor.z, Num(255)))

\* What the front end writes for a pixel colour, and what it clears to.
HostPixel(h, pixelColor) == IF h = "canvas" THEN setPixel(pixelColor) ELSE stroke(pixelColor)

HostClear(h) == IF h = "canvas" THEN clearBackground(V3(0, 0, 0)) ELSE V3(0, 0, 0)

\* The calls on objects not built on the spot that shading the hit makes, in
\* order: those of material.evaluate, then the addMul of accumulateSample,
\* whose argument is the colour evaluate returned.
draw_sample_writes(sampler, objects, lights, context, color) ==
    LET material == objects[context.object].material_
    IN  Material_writes(material,
                        Lights_forEachLight(lights, Ray_pointOnRay(context.ray, context.t),
                                            context.normal, objects),
                        context,
                        SceneObject_normal_ref(objects[context.object], context.object))
        \o IF IsThrown(color) THEN <<>>
           ELSE << [receiver |-> Sampler_accumulateSample_receiver(New,
                                    Material_evaluate_ref(material,
                                        <<"g_objects", context.object, "material_">>,
                                        context)),
                    value |-> Sampler_accumulateSample(sampler, color).colorAccumulator_] >>

\* buildRay(j + samplePoint.x, i + samplePoint.y) for the pixel in column col
\* and row row.
draw_buildRay(samplePoint, col, row) ==
    buildRay(Num(col) + samplePoint.x, Num(row) + samplePoint.y)

\* One pass of the body of while (sampler.hasNext()): the sampler and the
\* scene afterwards, whether the ray hit, and the exception if shading threw
\* one.
draw_sample(sampler, objects, lights, col, row) ==
    LET scene == [g_objects |-> objects, g_lights |-> lights]
        shaded(nx, context, color) ==
            [sampler |-> IF IsThrown(color) THEN nx.this
                         ELSE Sampler_accumulateSample(nx.this, color),
             scene |-> Scene_assign(scene,
                           draw_sample_writes(nx.this, objects, lights, context, color), 1),
             hit |-> TRUE, thrown |-> IsThrown(color)]
        hitBy(nx, context) ==
            shaded(nx, context,
                   SceneObject_shade(objects[context.object], context, objects, lights))
        traced(nx, ray, intersection) ==
            IF IsThrown(intersection)
            THEN [sampler |-> nx.this, scene |-> scene, hit |-> FALSE, thrown |-> TRUE]
            ELSE IF intersection = Undefined
            THEN [sampler |-> nx.this, scene |-> scene, hit |-> FALSE, thrown |-> FALSE]
            ELSE hitBy(nx, ShadeContext(intersection.obj, ray, intersection.t,
                                        intersection.normal))
        built(nx, ray) == traced(nx, ray, intersectRayWithScene(objects, ray))
        sampled(nx) == built(nx, draw_buildRay(nx.ret, col, row))
    IN  sampled(Sampler_next(sampler))

\* The update of the sphere made with the count of the frame before: the
\* update placed after the loops of the previous draw().
draw_animate_stale(objects, frameCount) ==
    IF frameCount = 0 THEN objects
    ELSE [objects EXCEPT ![1].center_.y = Mul(Num(1) \div 2 + Math_sin(frameCount - 1), Num(3))]

\* g_sphere.center_.y = (0.5 + Math.sin(g_frameCount)) * 3
draw_animate(objects, frameCount) ==
    [objects EXCEPT ![1].center_.y = Mul(Num(1) \div 2 + Math_sin(frameCount), Num(3))]

NoQuery == [op |-> "none"]

Init ==
    /\ host \in {"canvas", "processing"}
    /\ pc = "idle"
    /\ g_frameCount = 0
    /\ g_objects \in {initScene_objects, ambientScene_objects}
    /\ g_lights = initScene_lights
    /\ g_sampler \in {Sampler(n) : n \in 0..MaxSamples}
    /\ i = 0
    /\ j = 0
    /\ background = V3(0, 0, 0)
    /\ emitted = <<>>
    /\ pixelHit = FALSE
    /\ query = NoQuery
    /\ calls = <<>>

\* draw() up to its loops: the animation of the sphere, then the clear.
DrawBegin ==
    /\ pc \in {"idle", "aborted"}
    /\ g_frameCount < MaxFrames
    /\ g_objects' = draw_animate(g_objects, g_frameCount)
    /\ background' = HostClear(host)
    /\ emitted' = <<>>
    /\ i' = 0
    /\ j' = 0
    /\ pixelHit' = FALSE
    /\ pc' = "reset"
    /\ UNCHANGED <<host, g_frameCount, g_lights, g_sampler, query, calls>>

\* The top of the body of the pixel loops without the call of reset().
PixelReset_omitted ==
    /\ pc = "reset"
    /\ pixelHit' = FALSE
    /\ pc' = "sample"
    /\ UNCHANGED <<host, g_frameCount, g_objects, g_lights, g_sampler, i, j, background, emitted, query, calls>>

\* sampler.reset() at the top of the body of the pixel loops.
PixelReset ==
    /\ pc = "reset"
    /\ g_sampler' = Sampler_reset(g_sampler)
    /\ pixelHit' = FALSE
    /\ pc' = "sample"
    /\ UNCHANGED <<host, g_frameCount, g_objects, g_lights, i, j, background, emitted, query, calls>>

\* One iteration of while (sampler.hasNext()).
Sample ==
    /\ pc = "sample"
    /\ Sampler_hasNext(g_sampler)
    /\ \E r \in {draw_sample(Sampler_hasNext_this(g_sampler), g_objects, g_lights, j, i)} :
          /\ g_sampler' = r.sampler
          /\ g_objects' = r.scene.g_objects
          /\ g_lights' = r.scene.g_lights
          /\ pixelHit' = (pixelHit \/ r.hit)
          /\ pc' = IF r.thrown THEN "aborted" ELSE "sample"
    /\ UNCHANGED <<host, g_frameCount, i, j, background, emitted, query, calls>>

\* The loops nested the other way round: the inner loop walks down a column.
draw_advance_columns(col, row) ==
    IF row + 1 < Height
    THEN [j |-> col, i |-> row + 1, done |-> FALSE]
    ELSE IF col + 1 < Width
    THEN [j |-> col + 1, i |-> 0, done |-> FALSE]
    ELSE [j |-> col + 1, i |-> row + 1, done |-> TRUE]

\* The loop variables after the body for pixel (col, row): the inner loop
\* over j runs to the end of the row, then the outer loop moves to the next
\* row; done when both loops have run out.
draw_advance(col, row) ==
    IF col + 1 < Width
    THEN [j |-> col + 1, i |-> row, done |-> FALSE]
    ELSE IF row + 1 < Height
    THEN [j |-> 0, i |-> row + 1, done |-> FALSE]
    ELSE [j |-> col + 1, i |-> row + 1, done |-> TRUE]

\* The end of the sample loop: the pixel is written and the loops advance;
\* after the last pixel draw() returns and the frame is counted.
EmitPixel ==
    /\ pc = "sample"
    /\ ~Sampler_hasNext(g_sampler)
    /\ LET pixelColor == Sampler_result(g_sampler)
       IN  emitted' = Append(emitted, [x |-> j, y |-> i, hit |-> pixelHit,
                                       color |-> HostPixel(host, pixelColor)])
    /\ LET n == draw_advance(j, i)
       IN  /\ j' = n.j
           /\ i' = n.i
           /\ pc' = IF n.done THEN "idle" ELSE "reset"
           /\ g_frameCount' = IF n.done THEN g_frameCount + 1 ELSE g_frameCount
    /\ g_sampler' = Sampler_result_this(Sampler_hasNext_this(g_sampler))
    /\ UNCHANGED <<host, g_objects, g_lights, background, pixelHit, query, calls>>

Next == DrawBegin \/ PixelReset \/ Sample \/ EmitPixel

Spec == Init /\ [][Next]_vars

\* Weak fairness of Sample, written out.  A pass of the sample loop always
\* lowers the count of remaining samples, so Sample is enabled exactly when
\* pc = "sample" and hasNext() holds, and a step that leaves such a state is
\* a step of Sample.
Sample_fairness ==
    <>[](pc = "sample" /\ Sampler_hasNext(g_sampler))
        => []<><<pc = "sample" /\ Sampler_hasNext(g_sampler)>>_vars

\* draw() runs to completion once the timer has called it: no step of its
\* loops waits for anything.  The timer itself need not fire.
FairSpec ==
    /\ Init
    /\ [][Next]_vars
    /\ WF_vars(PixelReset)
    /\ WF_vars(EmitPixel)
    /\ Sample_fairness

-----------------------------------------------------------------------------
(* Scenes built with g_objects.push and probed with single calls of        *)
(* intersect, intersectRayWithScene and evaluateLight.                     *)

\* Primitives a probed scene holds at most.
MaxScene == 3

\* The primitives pushed: two overlapping spheres at different distances
\* along the z axis, a sphere behind the probe origin, the floor plane, a
\* plane parallel to the light, and a box around the world origin.
ScenePrimitives ==
    { Sphere(V3(0, 0, 10), Num(5), redSpecular),
      Sphere(V3(0, 0, 20), Num(8), redDiffuse),
      Sphere(V3(0, 0, -40), Num(5), redDiffuse),
      Plane(V3(0, 1, 0), Num(-4), yellowCheck),
      Plane(V3(1, 0, 0), Num(-2), blueCheck),
      Box(Num(2), Num(2), Num(2), V3(0, 0, 0), greenDiffuse) }

\* The rays probed: along +z from (0,0,-20), straight down from (0,10,0),
\* and obliquely down from (0,0,-20).
ProbeRays ==
    { Ray(V3(0, 0, -20), V3(0, 0, 1)),
      Ray(V3(0, 10, 0), V3(0, -1, 0)),
      Ray(V3(0, 0, -20), Vec(0, -60, 80)) }

\* The surface points evaluateLight is probed at: the world origin, a point
\* of the floor plane and the middle of the top face of the box.
ProbePoints == { V3(0, 0, 0), V3(0, -4, 30), V3(0, 1, 0) }

QueryInit ==
    /\ host = "canvas"
    /\ pc = "probe"
    /\ g_frameCount = 0
    /\ g_objects = <<>>
    /\ g_lights = initScene_lights
    /\ g_sampler = Sampler(1)
    /\ i = 0
    /\ j = 0
    /\ background = V3(0, 0, 0)
    /\ emitted = <<>>
    /\ pixelHit = FALSE
    /\ query = NoQuery
    /\ calls = <<>>

\* g_objects.push(obj)
PushObject ==
    /\ Len(g_objects) < MaxScene
    /\ \E obj \in ScenePrimitives : g_objects' = Append(g_objects, obj)
    /\ query' = NoQuery
    /\ UNCHANGED <<host, pc, g_frameCount, g_lights, g_sampler, i, j, background,
                   emitted, pixelHit, calls>>

\* g_objects[k].intersect(ray), by both generations of the primitives.
ProbeIntersect ==
    /\ query = NoQuery
    /\ \E k \in 1..Len(g_objects), ray \in ProbeRays :
          query' = [op |-> "intersect", obj |-> g_objects[k], ray |-> ray,
                    result |-> SceneObject_intersect(g_objects[k], ray),
                    list |-> Object_intersect_list(g_objects[k], ray)]
    /\ UNCHANGED <<host, pc, g_frameCount, g_objects, g_lights, g_sampler, i, j,
                   background, emitted, pixelHit, calls>>

\* intersectRayWithScene(ray), by both generations of the scene query.
ProbeScene ==
    /\ query = NoQuery
    /\ \E ray \in ProbeRays :
          query' = [op |-> "scene", ray |-> ray,
                    result |-> intersectRayWithScene(g_objects, ray),
                    list |-> intersectRayWithScene_list(g_objects, ray, FALSE, 0)]
    /\ UNCHANGED <<host, pc, g_frameCount, g_objects, g_lights, g_sampler, i, j,
                   background, emitted, pixelHit, calls>>

\* g_lights' light.evaluateLight(pos, normal) against the scene.
ProbeLight ==
    /\ query = NoQuery
    /\ \E pos \in ProbePoints :
          query' = [op |-> "evaluateLight", pos |-> pos,
                    result |-> DirectionalLight_evaluateLight(g_lights[1], pos,
                                                              V3(0, 1, 0), g_objects)]
    /\ UNCHANGED <<host, pc, g_frameCount, g_objects, g_lights, g_sampler, i, j,
                   background, emitted, pixelHit, calls>>

\* intersectRayWithScene(ray, opt_stopOnFirstIntersection, opt_skipObject):
\* loop is the state its loop ended in.  The object to skip is one of the
\* scene, given by its index, or one that is not in the scene.
ProbeSceneWith ==
    /\ query = NoQuery
    /\ \E ray \in ProbeRays, stop \in BOOLEAN, skip \in 0..(Len(g_objects) + 1) :
          query' = [op |-> "sceneWith", ray |-> ray, stop |-> stop, skip |-> skip,
                    loop |-> Scene_loop_list(g_objects, ray, stop, skip)]
    /\ UNCHANGED <<host, pc, g_frameCount, g_objects, g_lights, g_sampler, i, j,
                   background, emitted, pixelHit, calls>>

QueryNext == PushObject \/ ProbeIntersect \/ ProbeScene \/ ProbeLight \/ ProbeSceneWith

QuerySpec == QueryInit /\ [][QueryNext]_vars

-----------------------------------------------------------------------------
(* A Sampler driven through its interface in any order of calls.           *)

\* Calls of next(), and of accumulateSample(), followed after one reset().
MaxCalls == 4

\* The colours handed to accumulateSample.
SampleColors == { Vec(100, 50, 20), Vec(0, 100, 6) }

\* What has been called since the last reset(): whether there was a reset,
\* how many next() and accumulateSample(), the first colour accumulated, and
\* whether the calls were rounds of next() then accumulateSample() with that
\* one colour.
NoCalls == [reset |-> FALSE, nexts |-> 0, accs |-> 0, color |-> Undefined, rounds |-> TRUE]

SamplerInit ==
    /\ host = "canvas"
    /\ pc = "calls"
    /\ g_frameCount = 0
    /\ g_objects = initScene_objects
    /\ g_lights = initScene_lights
    /\ g_sampler \in {Sampler(n) : n \in 0..MaxSamples}
    /\ i = 0
    /\ j = 0
    /\ background = V3(0, 0, 0)
    /\ emitted = <<>>
    /\ pixelHit = FALSE
    /\ query = NoQuery
    /\ calls = NoCalls

CallReset ==
    /\ g_sampler' = Sampler_reset(g_sampler)
    /\ query' = [op |-> "reset", ret |-> Undefined, before |-> g_sampler]
    /\ calls' = [NoCalls EXCEPT !.reset = TRUE]
    /\ UNCHANGED <<host, pc, g_frameCount, g_objects, g_lights, i, j, background,
                   emitted, pixelHit>>

CallHasNext ==
    /\ g_sampler' = Sampler_hasNext_this(g_sampler)
    /\ query' = [op |-> "hasNext", ret |-> Sampler_hasNext(g_sampler), before |-> g_sampler]
    /\ UNCHANGED <<host, pc, g_frameCount, g_objects, g_lights, i, j,
                   background, emitted, pixelHit, calls>>

CallNext ==
    /\ calls.nexts < MaxCalls
    /\ LET nx == Sampler_next(g_sampler)
       IN  /\ g_sampler' = nx.this
           /\ query' = [op |-> "next", ret |-> nx.ret, before |-> g_sampler]
    /\ calls' = [calls EXCEPT !.nexts = @ + 1,
                              !.rounds = @ /\ calls.nexts = calls.accs]
    /\ UNCHANGED <<host, pc, g_frameCount, g_objects, g_lights, i, j, background,
                   emitted, pixelHit>>

CallAccumulateSample ==
    /\ calls.accs < MaxCalls
    /\ \E color \in SampleColors :
          /\ g_sampler' = Sampler_accumulateSample(g_sampler, color)
          /\ query' = [op |-> "accumulateSample", ret |-> Undefined, before |-> g_sampler]
          /\ calls' = [calls EXCEPT !.accs = @ + 1,
                                    !.color = IF calls.accs = 0 THEN color ELSE @,
                                    !.rounds = /\ @
                                               /\ calls.nexts = calls.accs + 1
                                               /\ (calls.accs = 0 \/ color = calls.color)]
    /\ UNCHANGED <<host, pc, g_frameCount, g_objects, g_lights, i, j, background,
                   emitted, pixelHit>>

CallResult ==
    /\ g_sampler' = Sampler_result_this(g_sampler)
    /\ query' = [op |-> "result", ret |-> Sampler_result(g_sampler), before |-> g_sampler]
    /\ UNCHANGED <<host, pc, g_frameCount, g_objects, g_lights, i, j,
                   background, emitted, pixelHit, calls>>

SamplerNext == CallReset \/ CallHasNext \/ CallNext \/ CallAccumulateSample \/ CallResult

SamplerSpec == SamplerInit /\ [][SamplerNext]_vars

-----------------------------------------------------------------------------
(* Single calls of the pure functions: intersect of one primitive,         *)
(* evaluate and evaluateRadiance_ of one material, Vector3.reflect.        *)

\* Integer coordinates of the arguments range over -MaxCoord..MaxCoord.
MaxCoord == 2

Coords == -MaxCoord..MaxCoord

\* The six axis-aligned unit vectors.
AxisNormals ==
    { V3(1, 0, 0), V3(-1, 0, 0), V3(0, 1, 0), V3(0, -1, 0), V3(0, 0, 1), V3(0, 0, -1) }

\* The vectors with integer components.
IntVectors == { V3(a, b, c) : a, b, c \in Coords }

\* Planes: axis-aligned and oblique unit normals, offsets of both signs.
ApplyPlanes ==
    { Plane(n, Num(d), yellowCheck) :
        n \in {V3(0, 1, 0), V3(0, -1, 0), V3(1, 0, 0), Vec(0, 60, 80)},
        d \in {-4, 0, 2} }

\* Boxes of two shapes, centred on and off the axes.
ApplyBoxes ==
    { Box(Num(dim[1]), Num(dim[2]), Num(dim[3]), V3(a, 5 * b, c), greenDiffuse) :
        dim \in {<<2, 2, 2>>, <<1, 3, 4>>}, a \in {0, MaxCoord}, b \in {0, 1},
        c \in {-1, 0, 1} }

\* The receivers of intersect: the primitives and the bare base class.
ApplyObjects ==
    ApplyPlanes \cup ApplyBoxes
        \cup { SceneObject(redDiffuse), Sphere(V3(0, 0, 10), Num(5), redSpecular) }

\* The rays: origins on a lattice, directions along the axes, oblique,
\* not of unit length, and grazing the horizontal at an angle of 1e-2.
ApplyRays ==
    { Ray(V3(a, 5 * b, 10 * c), d) :
        a \in {0, MaxCoord}, b \in Coords, c \in Coords,
        d \in {V3(0, 0, 1), V3(0, -1, 0), V3(0, 1, 0), V3(0, 0, -2),
               Vec(0, -60, 80), Vec(0, 1, 100)} }

ambientWhite == AmbientMaterial(V3(1, 1, 1))

ambientBlack == AmbientMaterial(V3(0, 0, 0))

\* The receivers of evaluate: the bare base class and the four materials.
ApplyMaterials ==
    { Material, ambientWhite, redDiffuse, redSpecular,
      CheckerMaterial(ambientWhite, ambientBlack),
      CheckerMaterial(yellowCheck, blueCheck) }

\* World coordinates on both sides of zero, on and between tile borders.
CheckerCoords == { 50 * k : k \in (-8 * MaxCoord)..(8 * MaxCoord) }

\* The shade context of a hit at (x, -4, z) of the ray that falls from
\* (x, 10, z) on the floor plane, the first object of the scene.
ApplyContext(x, z) ==
    ShadeContext(1, Ray(Vec(x, Num(10), z), V3(0, -1, 0)), Num(14), V3(0, 1, 0))

\* The scene around an evaluated material: the floor plane carrying it.
ApplyScene(material) == << Plane(V3(0, 1, 0), Num(-4), material) >>

\* The same scene with a box pushed after the plane that stands between the
\* floor near the world origin and a light shining along (0, -0.6, 0.8).
ApplyShadowedScene(material) ==
    Append(ApplyScene(material), Box(Num(2), Num(2), Num(2), V3(0, 2, -8), greenDiffuse))

\* The light of initScene(), a dimmer one that shines obliquely, and one that
\* shines from below the floor.
lightDown == DirectionalLight(V3(0, -1, 0), V3(1, 1, 1))

lightOblique == DirectionalLight(Vec(0, -60, 80), Vec(50, 50, 100))

lightUp == DirectionalLight(V3(0, 1, 0), V3(1, 1, 1))

\* The lists g_lights holds after zero to three calls of addLight.
ApplyLights ==
    { <<>>, <<lightDown>>, <<lightOblique>>, <<lightUp>>, <<lightDown, lightOblique>>,
      <<lightOblique, lightUp, lightDown>>, <<lightOblique, lightOblique>> }

ApplyInit ==
    /\ host = "canvas"
    /\ pc = "apply"
    /\ g_frameCount = 0
    /\ g_objects = <<>>
    /\ g_lights = initScene_lights
    /\ g_sampler = Sampler(1)
    /\ i = 0
    /\ j = 0
    /\ background = V3(0, 0, 0)
    /\ emitted = <<>>
    /\ pixelHit = FALSE
    /\ query = NoQuery
    /\ calls = <<>>

\* obj.intersect(ray)
ApplyIntersect ==
    /\ query = NoQuery
    /\ \E obj \in ApplyObjects, ray \in ApplyRays :
          query' = [op |-> "intersect", obj |-> obj, ray |-> ray,
                    result |-> SceneObject_intersect(obj, ray)]
    /\ UNCHANGED <<host, pc, g_frameCount, g_objects, g_lights, g_sampler, i, j,
                   background, emitted, pixelHit, calls>>

\* material.evaluate(context), the material lying on the floor plane, under
\* the lights of g_lights, with or without the box that casts a shadow.
ApplyEvaluate ==
    /\ query = NoQuery
    /\ \E material \in ApplyMaterials, x \in CheckerCoords,
          z \in {-450, -50, 0, 350, 400}, lights \in ApplyLights :
       \E scene \in {ApplyScene(material), ApplyShadowedScene(material)} :
          /\ g_objects' = scene
          /\ g_lights' = lights
          /\ query' = [op |-> "evaluate", material |-> material,
                       context |-> ApplyContext(x, z),
                       result |-> Material_evaluate(material, ApplyContext(x, z),
                                                    scene, lights)]
    /\ UNCHANGED <<host, pc, g_frameCount, g_sampler, i, j,
                   background, emitted, pixelHit, calls>>

\* material.evaluateRadiance_(irradiance, pos, normal, context)
ApplyEvaluateRadiance ==
    /\ query = NoQuery
    /\ \E material \in ApplyMaterials, lightVisible \in BOOLEAN :
          query' = [op |-> "evaluateRadiance_", material |-> material,
                    result |-> Material_evaluateRadiance_(material,
                                   Irradiance(V3(0, -1, 0), V3(1, 1, 1), lightVisible),
                                   V3(0, -4, 0), V3(0, 1, 0), ApplyContext(0, 0))]
    /\ UNCHANGED <<host, pc, g_frameCount, g_objects, g_lights, g_sampler, i, j,
                   background, emitted, pixelHit, calls>>

\* Vector3.reflect(v, n)
ApplyReflect ==
    /\ query = NoQuery
    /\ \E v \in IntVectors, n \in AxisNormals :
          query' = [op |-> "reflect", v |-> v, n |-> n,
                    result |-> Vector3_reflect(v, n)]
    /\ UNCHANGED <<host, pc, g_frameCount, g_objects, g_lights, g_sampler, i, j,
                   background, emitted, pixelHit, calls>>

\* The x components of the grazing directions, in units of 1e-6: on both
\* sides of the 1e-5 of Box.sign_, of both signs.
GrazingX == { -20, -10, -9, -1, 1, 9, 10, 20 }

\* box.intersect(ray) for the box between (-1,-1,-1) and (1,1,1) and a ray of
\* direction (dx * 1e-6, 0, 1) that starts at z = -2 within 16 * MaxCoord * 1e-6 of one
\* of the planes x = -1 and x = 1.  The x coordinates of the box and of the
\* ray are written in units of 1e-6.
ApplyIntersectGrazing ==
    /\ query = NoQuery
    /\ \E dx \in GrazingX, side \in {-1, 1}, k \in (-16 * MaxCoord)..(16 * MaxCoord) :
          \E box \in {[Box(Num(2), Num(2), Num(2), V3(0, 0, 0), greenDiffuse)
                         EXCEPT !.p0_.x = -Num(1) * 10000, !.p1_.x = Num(1) * 10000]},
             ray \in {Ray(Vec(side * Num(1) * 10000 + k, 0, Num(-2)), Vec(dx, 0, Num(1)))} :
             query' = [op |-> "intersectGrazing", obj |-> box, ray |-> ray,
                       result |-> Box_intersect_microX(box, ray)]
    /\ UNCHANGED <<host, pc, g_frameCount, g_objects, g_lights, g_sampler, i, j,
                   background, emitted, pixelHit, calls>>

ApplyNext ==
    \/ ApplyIntersect
    \/ ApplyEvaluate
    \/ ApplyEvaluateRadiance
    \/ ApplyReflect
    \/ ApplyIntersectGrazing

ApplySpec == ApplyInit /\ [][ApplyNext]_vars

-----------------------------------------------------------------------------
\* Properties of the Sampler.

\* C5: after reset() on a Sampler of N samples exactly the first N calls of
\* next() return an offset, hasNext() is true exactly while fewer than N
\* calls of next() were made since the reset, and every further next()
\* returns undefined and leaves the sampler as it was.
C5_ExactlyNSamples ==
    calls.reset =>
        /\ query.op = "next" =>
              /\ (query.ret # Undefined) <=> (calls.nexts <= g_sampler.numSamples_)
              /\ query.ret # Undefined => query.ret = Vec2(0, 0)
              /\ calls.nexts > g_sampler.numSamples_ => g_sampler = query.before
        /\ query.op = "hasNext" => (query.ret <=> (calls.nexts < g_sampler.numSamples_))
        /\ Sampler_hasNext(g_sampler) <=> (calls.nexts < g_sampler.numSamples_)

\* next() has been called on an exhausted sampler of at least one sample.
C5_Witness ==
    /\ calls.reset
    /\ query.op = "next"
    /\ g_sampler.numSamples_ >= 1
    /\ calls.nexts > g_sampler.numSamples_

\* a and b differ by at most tol steps of the number grid in each component.
Near(a, b, tol) ==
    /\ Abs(a.x - b.x) <= tol
    /\ Abs(a.y - b.y) <= tol
    /\ Abs(a.z - b.z) <= tol

\* C6: for a Sampler of N >= 1 samples, after reset() and N rounds of next()
\* then accumulateSample(C) with one colour C, result() equals C, up to the
\* rounding of the N products and sums (exactly for N = 1).
C6_EqualWeightsSumToOne ==
    (/\ calls.reset
     /\ calls.rounds
     /\ g_sampler.numSamples_ >= 1
     /\ calls.nexts = g_sampler.numSamples_
     /\ calls.accs = g_sampler.numSamples_)
        => Near(Sampler_result(g_sampler), calls.color, g_sampler.numSamples_ - 1)

\* Several rounds with one colour have been completed after a reset().
C6_Witness ==
    /\ calls.reset
    /\ calls.rounds
    /\ g_sampler.numSamples_ >= 2
    /\ calls.nexts = g_sampler.numSamples_
    /\ calls.accs = g_sampler.numSamples_

\* C19: result() and hasNext() leave the Sampler as it was, so result()
\* called again returns the same colour; next() leaves the accumulator as it
\* was, and accumulateSample() never turns an accumulator that holds a colour
\* back to (0,0,0): only reset() clears it.
C19_ResultAndHasNextReadOnly ==
    /\ query.op \in {"result", "hasNext"} => g_sampler = query.before
    /\ query.op = "result" =>
          /\ query.ret = query.before.colorAccumulator_
          /\ Sampler_result(g_sampler) = query.ret
    /\ query.op = "hasNext" => Sampler_hasNext(g_sampler) = query.ret
    /\ query.op = "next" => g_sampler.colorAccumulator_ = query.before.colorAccumulator_
    /\ (query.op = "accumulateSample" /\ query.before.colorAccumulator_ # V3(0, 0, 0))
          => g_sampler.colorAccumulator_ # V3(0, 0, 0)

\* result() has been called on a sampler that holds an accumulated colour
\* and has samples left.
C19_Witness ==
    /\ query.op = "result"
    /\ calls.reset
    /\ calls.accs >= 1
    /\ query.ret # V3(0, 0, 0)
    /\ g_sampler.remainingSamples_ > 0

\* C27: the count of remaining samples of a Sampler built with N lies in
\* 0..N after any calls of its interface, N never changes, next() lowers the
\* count by one while it is positive and leaves it at zero, reset() puts it
\* back to N, and hasNext(), accumulateSample() and result() leave it alone.
C27_RemainingWithinBounds ==
    /\ g_sampler.remainingSamples_ \in 0..g_sampler.numSamples_
    /\ query # NoQuery =>
          /\ g_sampler.numSamples_ = query.before.numSamples_
          /\ g_sampler.remainingSamples_ =
                CASE query.op = "next" ->
                        IF query.before.remainingSamples_ > 0
                        THEN query.before.remainingSamples_ - 1 ELSE 0
                  [] query.op = "reset" -> g_sampler.numSamples_
                  [] OTHER -> query.before.remainingSamples_

\* next() has been called on an exhausted sampler that takes samples, and
\* before it samples were accumulated.
C27_Witness ==
    /\ query.op = "next"
    /\ query.before.remainingSamples_ = 0
    /\ g_sampler.numSamples_ >= 2
    /\ calls.accs >= 1

-----------------------------------------------------------------------------
\* Properties of the probes.

\* The permutations of 1..n, the insertion orders of a scene of n primitives.
Perms(n) == {f \in [1..n -> 1..n] : \A a, b \in 1..n : f[a] = f[b] => a = b}

Permuted(objects, f) == [k \in 1..Len(objects) |-> objects[f[k]]]

\* The primitives of the scene whose intersect reports a hit of the ray, and
\* those whose list of ray parameters is not empty.
Hits(objects, ray) ==
    {k \in 1..Len(objects) : SceneObject_intersect(objects[k], ray) # Undefined}

HitsList(objects, ray) ==
    {k \in 1..Len(objects) : Object_intersect_list(objects[k], ray) # <<>>}

\* The ray parameters the primitives of the scene report.
ReportedT(objects, ray) ==
    {SceneObject_intersect(objects[k], ray).t : k \in Hits(objects, ray)}

ReportedTList(objects, ray) ==
    UNION {{Object_intersect_list(objects[k], ray)[n] :
               n \in 1..Len(Object_intersect_list(objects[k], ray))} :
           k \in HitsList(objects, ray)}

\* t is the least of the set T of ray parameters.
IsLeast(t, T) == t \in T /\ \A u \in T : t <= u

\* C2: intersectRayWithScene returns the hit with the smallest t among the
\* primitives the ray intersects, and when a single primitive attains that
\* t, the same t and the same primitive for every insertion order of the
\* scene; so do both generations of the query.
C2_NearestAnyOrder ==
    query.op = "scene" =>
        LET T == ReportedT(g_objects, query.ray)
            TL == ReportedTList(g_objects, query.ray)
            r == query.result
            rl == query.list
        IN  /\ T # {} =>
                  /\ r # Undefined
                  /\ IsLeast(r.t, T)
                  /\ SceneObject_intersect(g_objects[r.obj], query.ray).t = r.t
                  /\ Cardinality({k \in Hits(g_objects, query.ray) :
                          SceneObject_intersect(g_objects[k], query.ray).t = r.t}) = 1
                        => \A f \in Perms(Len(g_objects)) :
                              LET p == Permuted(g_objects, f)
                                  rp == intersectRayWithScene(p, query.ray)
                              IN  rp # Undefined /\ rp.t = r.t /\ p[rp.obj] = g_objects[r.obj]
            /\ TL # {} =>
                  /\ rl # Undefined
                  /\ IsLeast(rl.t, TL)
                  /\ \E n \in DOMAIN Object_intersect_list(g_objects[rl.obj], query.ray) :
                        Object_intersect_list(g_objects[rl.obj], query.ray)[n] = rl.t
                  /\ Cardinality({k \in HitsList(g_objects, query.ray) :
                          \E n \in DOMAIN Object_intersect_list(g_objects[k], query.ray) :
                             Object_intersect_list(g_objects[k], query.ray)[n] = rl.t}) = 1
                        => \A f \in Perms(Len(g_objects)) :
                              LET p == Permuted(g_objects, f)
                                  rp == intersectRayWithScene_list(p, query.ray, FALSE, 0)
                              IN  rp # Undefined /\ rp.t = rl.t /\ p[rp.obj] = g_objects[rl.obj]

\* A ray that hits several primitives at different distances has been traced
\* through a scene whose nearest primitive was not pushed first.
C2_Witness ==
    /\ query.op = "scene"
    /\ Cardinality(ReportedT(g_objects, query.ray)) >= 2
    /\ query.result # Undefined
    /\ query.result.obj > 1
    /\ query.list # Undefined
    /\ query.list.obj > 1

\* C3: every hit returned by intersectRayWithScene and by the intersect of
\* Sphere, Plane and Box has ray parameter t >= 0.
C3_HitsNonNegative ==
    (query.op \in {"scene", "intersect"} /\ query.result # Undefined)
        => Ge(query.result.t, 0)

\* C4: intersectRayWithScene returns undefined if and only if no primitive
\* of the scene reports an intersection with the ray; what it returns
\* otherwise is a hit with a finite t and a primitive of the scene.
C4_UndefinedIffNoHit ==
    query.op = "scene" =>
        /\ (query.result = Undefined) <=> (Hits(g_objects, query.ray) = {})
        /\ query.result # Undefined =>
              IsFinite(query.result.t) /\ query.result.obj \in 1..Len(g_objects)
        /\ (query.list = Undefined) <=> (HitsList(g_objects, query.ray) = {})
        /\ query.list # Undefined =>
              IsFinite(query.list.t) /\ query.list.obj \in 1..Len(g_objects)

\* A ray has been traced through a scene of several primitives and missed
\* them all.
C4_Witness ==
    /\ query.op = "scene"
    /\ Len(g_objects) >= 2
    /\ query.result = Undefined
    /\ query.list = Undefined

\* C8: when the shadow ray of evaluateLight intersects no primitive,
\* evaluateLight returns an Irradiance with lightVisible = false and does not
\* raise an error.
C8_UnlitWhenShadowRayMisses ==
    (query.op = "evaluateLight"
       /\ intersectRayWithScene(g_objects,
              DirectionalLight_shadowRay(g_lights[1], query.pos)) = Undefined)
        => (~IsThrown(query.result) /\ query.result.lightVisible = FALSE)

\* The probe of the claim's example: Sphere.intersect for the ray from
\* (0,0,-20) along (0,0,1) against the sphere at (0,0,10) of radius 5.
SphereExampleProbed ==
    /\ query.op = "intersect"
    /\ query.obj.type = "Sphere"
    /\ query.obj.center_ = V3(0, 0, 10)
    /\ query.obj.radius_ = Num(5)
    /\ query.ray = Ray(V3(0, 0, -20), V3(0, 0, 1))

\* C10 as amended: for that ray and sphere Sphere.intersect reports the near
\* hit at t = 25, the distance from the origin to the point (0,0,5) where the
\* ray enters the sphere; the list-returning generation reports it first.
C10_NearHitAt25 ==
    SphereExampleProbed =>
        /\ query.result # Undefined
        /\ query.result.t = Num(25)
        /\ Ray_pointOnRay(query.ray, query.result.t) = V3(0, 0, 5)
        /\ query.list # <<>>
        /\ query.list[1] = Num(25)

C10_Witness == SphereExampleProbed /\ query.result # Undefined

\* C10 as claimed: for that ray and sphere Sphere.intersect reports a near
\* hit at t = 5.
C10_NearHitAt5 ==
    SphereExampleProbed => (query.result # Undefined /\ query.result.t = Num(5))

\* The shadow ray of a light for a surface point: from pos - direction *
\* 10000, along direction.
ShadowRayOf(light, pos) ==
    Ray(Vector3_subtract(pos, Vector3_scale(light.direction_, Num(10000))),
        light.direction_)

\* C20: evaluateLight(pos, normal) casts the shadow ray from
\* pos - direction * 10000 along direction; it returns an irradiance exactly
\* when that ray hits the scene, with lightVisible true if and only if the
\* nearest intersection has |t - 10000| < 1e-2, so a primitive hit at a t
\* smaller than that makes the point not visible.
C20_VisibleIffNearestAtStep ==
    query.op = "evaluateLight" =>
        LET ray == ShadowRayOf(g_lights[1], query.pos)
            nearest == intersectRayWithScene(g_objects, ray)
        IN  /\ DirectionalLight_shadowRay(g_lights[1], query.pos) = ray
            /\ IsThrown(query.result) <=> (nearest = Undefined)
            /\ ~IsThrown(query.result) =>
                  /\ query.result.lightVisible
                        <=> (Abs(nearest.t - Num(10000)) < Eps1em2)
                  /\ (\E t \in ReportedT(g_objects, ray) : t <= Num(10000) - Eps1em2)
                        => ~query.result.lightVisible

\* A point of a scene of several primitives has been found visible.
C20_Witness ==
    /\ query.op = "evaluateLight"
    /\ Len(g_objects) >= 2
    /\ ~IsThrown(query.result)
    /\ query.result.lightVisible
    /\ Cardinality(ReportedT(g_objects, ShadowRayOf(g_lights[1], query.pos))) >= 2

\* The call made was intersectRayWithScene with its optional arguments.
SceneProbedWith == query.op = "sceneWith"

\* Whether the primitive at index k reports a hit of the probed ray.
ReportsHit(k) == Object_intersect_list(g_objects[k], query.ray) # <<>>

\* The indices of the primitives whose intersect the call has made.
Tested == { query.loop.tested[n] : n \in 1..Len(query.loop.tested) }

Removed(objects, k) == SelectSeq([n \in 1..Len(objects) |-> [at |-> n, obj |-> objects[n]]], LAMBDA e : e.at # k)

\* The result of the query on a scene without the skipped primitive, its
\* object named by the index it has in the whole scene.
WithoutSkipped(objects, ray, stop, skip) ==
    LET rest == Removed(objects, skip)
        r == intersectRayWithScene_list([n \in 1..Len(rest) |-> rest[n].obj], ray, stop, 0)
    IN  IF r = Undefined THEN Undefined ELSE [r EXCEPT !.obj = rest[r.obj].at]

-----------------------------------------------------------------------------
\* Properties of single calls.

\* The call made was plane.intersect(ray).
PlaneProbed == query.op = "intersect" /\ query.obj.type = "Plane"

\* The claim's example: the ray from (0,10,0) along (0,-1,0) against the
\* plane of normal (0,1,0) and offset -4.
PlaneExampleProbed ==
    /\ PlaneProbed
    /\ query.obj.normal_ = V3(0, 1, 0)
    /\ query.obj.offset_ = Num(-4)
    /\ query.ray = Ray(V3(0, 10, 0), V3(0, -1, 0))

\* C11: for a plane with unit normal n and offset d and a ray (O, D) with
\* |n.D| >= 1e-2 and (d - n.O)/(n.D) >= 0, Plane.intersect returns
\* t = (d - n.O)/(n.D), together with the plane's own normal n, whichever
\* side the ray comes from; for an axis-aligned n the point at t lies on the
\* plane up to one step of rounding; the example gives t = 14 and normal
\* (0,1,0).
C11_PlaneHitOwnNormal ==
    PlaneProbed =>
        LET n == query.obj.normal_
            d == query.obj.offset_
            nD == Vector3_dot(n, query.ray.direction)
            nO == Vector3_dot(n, query.ray.origin)
        IN  /\ (Ge(Math_abs(nD), Eps1em2) /\ Ge(Div(Sub(d, nO), nD), 0)) =>
                  /\ query.result # Undefined
                  /\ query.result.t = Div(Sub(d, nO), nD)
                  /\ query.result.normal = n
                  /\ n \in AxisNormals =>
                        Abs(Vector3_dot(n, Ray_pointOnRay(query.ray, query.result.t)) - d) <= 1
            /\ PlaneExampleProbed =>
                  /\ query.result # Undefined
                  /\ query.result.t = Num(14)
                  /\ query.result.normal = V3(0, 1, 0)

\* The example has been probed and answered with a hit.
C11_Witness == PlaneExampleProbed /\ query.result # Undefined

\* The call made was box.intersect(ray) for a ray along +z through the
\* centre of the box that starts below the box.
BoxAxisProbed ==
    /\ query.op = "intersect"
    /\ query.obj.type = "Box"
    /\ query.ray.direction = V3(0, 0, 1)
    /\ 2 * query.ray.origin.x = query.obj.p0_.x + query.obj.p1_.x
    /\ 2 * query.ray.origin.y = query.obj.p0_.y + query.obj.p1_.y
    /\ query.ray.origin.z < query.obj.p0_.z

Tile(c) ==
    CHOOSE n \in (-4 * MaxCoord - 4)..(4 * MaxCoord + 4) :
        n * Num(4) <= c /\ c < (n + 1) * Num(4)

\* The call made was checker.evaluate(context).
CheckerProbed == query.op = "evaluate" /\ query.material.type = "Checker"

\* The context of a hit moved by dx along the x axis.
ShiftedX(context, dx) == [context EXCEPT !.ray.origin.x = @ + dx]

C14_ReflectIsMirror ==
    query.op = "reflect" =>
        LET v == query.v
            n == query.n
            r == query.result
            vn == Vector3_dot(v, n)
        IN  /\ r = Vec(v.x - Mul(Mul(Num(2), n.x), vn),
                       v.y - Mul(Mul(Num(2), n.y), vn),
                       v.z - Mul(Mul(Num(2), n.z), vn))
            /\ Vector3_dot(r, n) = -vn
            /\ Vector3_dot(r, r) = Vector3_dot(v, v)

\* A vector neither parallel nor perpendicular to n has been reflected.
C14_Witness ==
    /\ query.op = "reflect"
    /\ Vector3_dot(query.v, query.n) # 0
    /\ query.result # query.v
    /\ query.result # Vector3_negate(query.v)

\* The errors of the abstract base classes.
NotImplemented ==
    { Thrown("evaluate is not implemented."),
      Thrown("evaluateRadiance_ is not implemented."),
      Thrown("intersect is not implemented.") }

RECURSIVE SumFrom(_, _)
SumFrom(terms, k) ==
    IF k > Len(terms) THEN V3(0, 0, 0)
    ELSE Vec(terms[k].x + SumFrom(terms, k + 1).x, terms[k].y + SumFrom(terms, k + 1).y,
             terms[k].z + SumFrom(terms, k + 1).z)

\* The call made was material.evaluate(context) on a material of this type.
Evaluated(type) == query.op = "evaluate" /\ query.material.type = type

\* The point shaded by the call.
ShadedPoint == Ray_pointOnRay(query.context.ray, query.context.t)

\* Whether the shadow test of the light reports the shaded point visible.
ReportedVisible(light) ==
    DirectionalLight_evaluateLight(light, ShadedPoint, query.context.normal,
                                   g_objects).lightVisible

\* max(-normal.lightDirection, 0) * lightColor, scaled by the colour, for a
\* light reported visible, and zero for any other.
LambertTerm(light, color) ==
    LET cos == -Vector3_dot(query.context.normal, light.direction_)
    IN  IF ReportedVisible(light) /\ cos > 0
        THEN Vec(Mul(Mul(light.color_.x, cos), color.x),
                 Mul(Mul(light.color_.y, cos), color.y),
                 Mul(Mul(light.color_.z, cos), color.z))
        ELSE V3(0, 0, 0)

\* ambientColor scaled component-wise by the colour of a diffuse material.
AmbientTerm(diffuse) ==
    Vec(Mul(diffuse.ambientColor_.x, diffuse.color_.x),
        Mul(diffuse.ambientColor_.y, diffuse.color_.y),
        Mul(diffuse.ambientColor_.z, diffuse.color_.z))

\* The sum of the Lambert terms of the lights of g_lights.
LambertSum(diffuse) ==
    SumFrom([k \in 1..Len(g_lights) |-> LambertTerm(g_lights[k], diffuse.color_)], 1)

\* C21: DiffuseMaterial.evaluate returns the sum over the lights of g_lights
\* of max(-normal.lightDirection, 0) * lightColor scaled by the material's
\* colour, a light reported not visible or shining from behind the surface
\* counting zero, plus the ambient term ambientColor * colour once.
C21_DiffuseIsLambertPlusAmbient ==
    Evaluated("Diffuse") =>
        query.result = SumFrom(<<LambertSum(query.material), AmbientTerm(query.material)>>, 1)

\* A diffuse material has been evaluated under two lights at a point that
\* one of them is reported not to see, and the other lit it.
C21_Witness ==
    /\ Evaluated("Diffuse")
    /\ Len(g_lights) = 2
    /\ ~ReportedVisible(g_lights[2])
    /\ ReportedVisible(g_lights[1])
    /\ query.result # AmbientTerm(query.material)
    /\ AmbientTerm(query.material) # V3(0, 0, 0)

\* pow(max(-reflect(rayDirection, normal).lightDirection, 0), specularPower)
\* * lightColor.
SpecularTerm(light, specular) ==
    LET r == Vector3_reflect(query.context.ray.direction, query.context.normal)
        pow == Math_pow(Math_max(-Vector3_dot(r, light.direction_), 0),
                        specular.specularPower_)
    IN  Vec(Mul(light.color_.x, pow), Mul(light.color_.y, pow), Mul(light.color_.z, pow))

\* The sum of the specular terms of the lights of g_lights.
SpecularSum(specular) ==
    SumFrom([k \in 1..Len(g_lights) |-> SpecularTerm(g_lights[k], specular)], 1)

\* C22: SpecularMaterial.evaluate returns the sum over the lights of the
\* wrapped diffuse material's radiance, plus the sum over the lights of the
\* specular term, plus the wrapped diffuse material's ambient term once.
C22_SpecularAddsAmbientOnce ==
    Evaluated("Specular") =>
        query.result = SumFrom(<<LambertSum(query.material.diffuseMaterial_),
                                 SpecularSum(query.material),
                                 AmbientTerm(query.material.diffuseMaterial_)>>, 1)

\* C28: a light whose shadow test reports the shaded point not visible adds
\* nothing to the colour SpecularMaterial.evaluate returns: the colour is the
\* one the lights reported visible give alone.
C28_UnseenLightAddsNothing ==
    Evaluated("Specular") =>
        query.result = Material_evaluate(query.material, query.context, g_objects,
                                         SelectSeq(g_lights, ReportedVisible))

\* The call made was intersect of a primitive, and it returned a hit.
HitReturned ==
    /\ query.op \in {"intersect", "intersectGrazing"}
    /\ ~IsThrown(query.result)
    /\ query.result # Undefined

\* The length of n is 1 to within the rounding of normalize() on the grid.
UnitLength(n) == Abs(Vector3_dot(n, n) - Num(1)) <= 3 * Eps1em2

\* C26: every hit a Sphere, a Plane with a unit normal or a Box returns
\* carries a normal of unit length; no hit of a Box carries the zero vector,
\* however small the component of the ray's direction on the entry axis.
C26_HitNormalsUnit ==
    HitReturned => UnitLength(query.result.normal)

-----------------------------------------------------------------------------
\* Properties of the pixel loops of draw().

\* The pixel the k-th emission of a frame belongs to in row-major order.
RowMajor(k) == [x |-> (k - 1) % Width, y |-> (k - 1) \div Width]

\* C1: during one draw() a colour is emitted exactly once for every pixel of
\* the width x height image, in row-major order: the emissions so far are
\* always the first pixels of the row-major enumeration, and when draw()
\* has returned they are all width * height pixels.
C1_RowMajorOnce ==
    /\ Len(emitted) <= Width * Height
    /\ \A k \in 1..Len(emitted) :
          emitted[k].x = RowMajor(k).x /\ emitted[k].y = RowMajor(k).y
    /\ (pc = "idle" /\ g_frameCount > 0) => Len(emitted) = Width * Height

\* A draw() has returned after writing the whole image.
C1_Witness == pc = "idle" /\ g_frameCount > 0 /\ Len(emitted) = Width * Height

\* C7: when none of a pixel's sample rays hits a primitive, no error is
\* raised (the frame is only ever aborted by a sample that hit) and the
\* colour written for the pixel is the colour the frame was cleared to.
C7_MissIsBackground ==
    /\ \A k \in 1..Len(emitted) : ~emitted[k].hit => emitted[k].color = background
    /\ pc = "aborted" => pixelHit

\* A pixel whose rays all missed has been written after a pixel that was hit.
C7_Witness ==
    \E k \in 2..Len(emitted) : ~emitted[k].hit /\ emitted[k - 1].hit

\* C9: every channel written for a pixel lies in 0..255.
C9_ChannelsInRange ==
    \A k \in 1..Len(emitted) :
        LET c == emitted[k].color
        IN  /\ 0 <= c.x /\ c.x <= Num(255)
            /\ 0 <= c.y /\ c.y <= Num(255)
            /\ 0 <= c.z /\ c.z <= Num(255)

\* The y coordinate the animation gives the sphere's centre in frame n.
AnimatedY(n) == Mul(50 + Math_sin(n), Num(3))

\* C16: the sphere's centre is written only by the step that begins a
\* draw(), before the first pixel of the frame, and while the pixel loops
\* run it holds the position of the current frame: every ray of a frame sees
\* the same, updated, position.
C16_AnimationBeforeRays ==
    [][/\ pc' \in {"reset", "sample"} =>
             g_objects'[1].center_ = Vec(0, AnimatedY(g_frameCount'), Num(10))
       /\ g_objects' # g_objects =>
             /\ pc \in {"idle", "aborted"}
             /\ pc' = "reset"
             /\ emitted' = <<>>
             /\ g_objects' = [g_objects EXCEPT ![1].center_.y = AnimatedY(g_frameCount)]
      ]_vars

\* The second frame is being traced with the sphere at its second position.
C16_Witness ==
    /\ g_frameCount = 1
    /\ pc = "sample"
    /\ Len(emitted) >= 1
    /\ g_objects[1].center_.y = AnimatedY(1)
    /\ AnimatedY(1) # AnimatedY(0)

\* The colour of pixel (col, row) computed with a sampler that never served
\* another pixel: the accumulator after its sample loop.
RECURSIVE Pixel_loop(_, _, _, _, _)
Pixel_step(r, objects, lights, col, row) ==
    IF r.thrown THEN Undefined ELSE Pixel_loop(r.sampler, objects, lights, col, row)

Pixel_loop(sampler, objects, lights, col, row) ==
    IF Sampler_hasNext(sampler)
    THEN Pixel_step(draw_sample(sampler, objects, lights, col, row),
                    objects, lights, col, row)
    ELSE Sampler_result(sampler)

\* What the front end writes for the last pixel emitted, were it traced with
\* a new Sampler of the same number of samples.
Pixel_alone(last) ==
    HostPixel(host, Pixel_loop(Sampler(g_sampler.numSamples_), g_objects, g_lights,
                               last.x, last.y))

\* C18: the colour emitted for a pixel is the colour its own samples give a
\* sampler that never served another pixel; while no sample of the current
\* pixel has been taken the accumulator is (0,0,0), and the samples left
\* never exceed N.
C18_PixelOwnSamplesOnly ==
    /\ emitted # <<>> => emitted[Len(emitted)].color = Pixel_alone(emitted[Len(emitted)])
    /\ g_sampler.remainingSamples_ <= g_sampler.numSamples_
    /\ (pc = "sample" /\ g_sampler.remainingSamples_ = g_sampler.numSamples_)
          => g_sampler.colorAccumulator_ = V3(0, 0, 0)

\* A pixel has been emitted right after a pixel of another, non-black,
\* colour, by a sampler that takes samples.
C18_Witness ==
    /\ Len(emitted) >= 2
    /\ g_sampler.numSamples_ >= 1
    /\ emitted[Len(emitted) - 1].color # V3(0, 0, 0)
    /\ emitted[Len(emitted)].color # emitted[Len(emitted) - 1].color

\* C17: every step of the pixel loops of draw() leaves the scene as it was:
\* the primitives of g_objects, their order, their geometry and the colours
\* of their materials, and the direction and colour of every light.
C17_PixelLoopLeavesScene ==
    [][(pc \in {"reset", "sample"}) =>
            /\ g_objects' = g_objects
            /\ g_lights' = g_lights
      ]_vars

\* A sample has hit the plane where its checker chose the AmbientMaterial,
\* whose colour evaluate returns by reference, as the plane does its normal.
C17_Witness ==
    /\ pc = "sample"
    /\ pixelHit
    /\ g_objects[2] = ambientScene_objects[2]
    /\ g_sampler.remainingSamples_ < g_sampler.numSamples_
    /\ LET ray == buildRay(Num(j), Num(i))
           r == intersectRayWithScene(g_objects, ray)
       IN  /\ r # Undefined
           /\ r.obj = 2
           /\ SceneObject_normal_ref(g_objects[2], 2) # New
           /\ Material_evaluate_ref(g_objects[2].material_, <<"g_objects", 2, "material_">>,
                                    ShadeContext(2, ray, r.t, r.normal)) # New

-----------------------------------------------------------------------------
\* Termination of draw().

\* What a step of the loops of draw() does to the sampler and the image:
\* reset() sets the count to N; a pass of the sample loop lowers it by one,
\* leaves the sample weight next() sets and writes no pixel; a pixel is
\* written when the count is zero, by a step that leaves the sampler alone.
LoopStep ==
    /\ (pc = "reset") =>
          g_sampler'.remainingSamples_ = g_sampler.numSamples_
    /\ (pc = "sample" /\ Sampler_hasNext(g_sampler)) =>
          /\ g_sampler'.remainingSamples_ = g_sampler.remainingSamples_ - 1
          /\ g_sampler'.sampleWeight = Div(Num(1), Num(g_sampler.numSamples_))
          /\ Len(emitted') = Len(emitted)
    /\ (pc = "sample" /\ ~Sampler_hasNext(g_sampler)) =>
          /\ g_sampler.remainingSamples_ = 0
          /\ g_sampler' = g_sampler
          /\ Len(emitted') = Len(emitted) + 1

\* C29: a draw() that has begun ends, having written Width * Height pixels;
\* on the way every pass of the sample loop calls next(), which lowers the
\* count of remaining samples by one and sets the sample weight, so that a
\* pixel is written after exactly N passes.
C29_DrawTerminates ==
    /\ [][LoopStep]_vars
    /\ (pc = "reset") ~> (pc = "idle" /\ Len(emitted) = Width * Height)

\* A frame has been drawn to its end with the most samples per pixel, and
\* rays hit the scene.
C29_Witness ==
    /\ pc = "idle"
    /\ g_frameCount >= 1
    /\ Len(emitted) = Width * Height
    /\ g_sampler.numSamples_ = MaxSamples
    /\ \E k \in 1..Len(emitted) : emitted[k].hit

-----------------------------------------------------------------------------
\* Properties of the camera.

\* The point of the view plane for the screen position (sx, sy): the width
\* and the height of the screen span -5..+5 there, sy growing downwards.
ViewPlanePoint(sx, sy) ==
    Vec(RDiv((2 * sx - Num(Width)) * 5, Width), RDiv((Num(Height) - 2 * sy) * 5, Height),
        g_near_plane)

\* The ray from the eye through the screen position (sx, sy).
RayThrough(sx, sy) ==
    Ray(g_eye_origin,
        Vector3_normalize(Vector3_subtract(ViewPlanePoint(sx, sy), g_eye_origin)))

\* The sample offset the next pass of the sample loop gets from next().
NextOffset == Sampler_next(g_sampler).ret

\* C25: the ray built for a sample of pixel (j, i) with offset (ox, oy) is
\* the ray from the eye through the screen position
\* (j + 0.5 + ox, i + 0.5 + oy), the centre of the pixel plus the offset.
C25_RayThroughPixelCentre ==
    (pc = "sample" /\ Sampler_hasNext(g_sampler)) =>
        draw_buildRay(NextOffset, j, i)
            = RayThrough(Num(j) + Num(1) \div 2 + NextOffset.x,
                         Num(i) + Num(1) \div 2 + NextOffset.y)

====
